---------------------------- MODULE Spec2Model ----------------------------
(***************************************************************************)
(* A model of Chipy (src/chipy/Chipy.py): the builder calls of a host      *)
(* program mutate module, signal, snippet and context objects; the         *)
(* emitter write_verilog serialises them.                                  *)
(*                                                                         *)
(* Every handler of the source is an operator from a state record to a     *)
(* state record, so that handlers call each other as in the source and a   *)
(* raised exception keeps the effects made before it.  The actions apply   *)
(* the handlers to the variables.  Text lines are modelled as the strings  *)
(* the source formats, without the trailing "// <file>:<line>" comment.    *)
(***************************************************************************)
EXTENDS Integers, Sequences, FiniteSets, TLC

VARIABLES
    modules,              \* the ChipyModule objects, by name
    ChipyModulesDict,     \* tls.ChipyModulesDict: the registered names, in insertion order
    contexts,             \* the ChipyContext objects, by allocation index
    ChipyCurrentContext,  \* tls.ChipyCurrentContext
    ChipyElseContext,     \* tls.ChipyElseContext
    ChipyIdCounter,       \* tls.ChipyIdCounter
    withs,                \* the with-blocks the host program has open, innermost last
    exc,                  \* the exception the last builder call raised, or NoExc
    hist,                 \* the builder calls made, in order (operation and arguments)
    out,                  \* what write_verilog printed, or NoOut
    calls,                \* number of builder calls made so far
    budget,               \* number of builder calls the host program makes
    threads,              \* the further threads of the host program: what tls holds for each
    dicts                 \* the dict objects the threads' tls.ChipyModulesDict refer to

vars == <<modules, ChipyModulesDict, contexts, ChipyCurrentContext,
          ChipyElseContext, ChipyIdCounter, withs, exc, hist, out, calls, budget,
          threads, dicts>>

---------------------------------------------------------------------------
(* Bounds of the model. *)

\* builder calls a host program makes after its prelude
MaxCalls == 4

---------------------------------------------------------------------------
(* Python values. *)

\* None, where a string is expected (a name, an rvalue, an lvalue, a module)
None == "None"
\* None, where a context is expected
NoCtx == 0
\* the attribute `parent` of a context that was never entered
Unset == -1
\* no exception pending
NoExc == "ok"
NoOut == [status |-> "none"]

AttributeError == "AttributeError"
ValueError == "ValueError"

Abs(i) == IF i < 0 THEN -i ELSE i
Max(i, j) == IF i >= j THEN i ELSE j

\* the names the host programs of this model use, in the order of Python's
\* sorted() on strings ('_' sorts before the lower-case letters)
SortedNames == <<"__1", "__2", "__3", "__4", "__5", "__6", "__7", "__8", "__9",
                 "a", "addr", "b", "clk", "data", "inst__o", "inst__p", "mem",
                 "o", "p", "q", "r", "sel", "u2__o", "u2__p", "we", "x", "y">>

Range(f) == {f[i] : i \in DOMAIN f}

\* sorted(names): the names of S in Python's order
Sorted(S) == SelectSeq(SortedNames, LAMBDA n : n \in S)

---------------------------------------------------------------------------
(* The state the handlers work on. *)

State == [mods |-> modules, dict |-> ChipyModulesDict, ctxs |-> contexts,
          cur |-> ChipyCurrentContext, els |-> ChipyElseContext,
          idc |-> ChipyIdCounter, exc |-> NoExc]

\* tls as TLSDefaults creates it, and no object yet
S0 == [mods |-> <<>>, dict |-> <<>>, ctxs |-> <<>>, cur |-> NoCtx,
       els |-> NoCtx, idc |-> 0, exc |-> NoExc]

Raise(s, e) == [s EXCEPT !.exc = e]
Raised(s) == s.exc # NoExc

\* raiseOutsideContext
raiseOutsideContext(s, name) ==
    IF s.cur = NoCtx
    THEN Raise(s, "ChipyError: " \o name \o " called outside chipy context")
    ELSE s

\* ChipyAutoName that leaves the counter alone
ChipyAutoNameStuck(s) == s

\* ChipyAutoName: the counter is incremented, the name is "__%d" of it
ChipyAutoName(s) == [s EXCEPT !.idc = @ + 1]
AutoNameOf(s) == "__" \o ToString(s.idc)

\* ResetDesign without the check for an open context
ResetDesignAnywhere(s) == [s EXCEPT !.dict = <<>>, !.els = NoCtx, !.idc = 0]

\* ResetDesign
ResetDesign(s) ==
    IF s.cur # NoCtx
    THEN Raise(s, "ValueError: Cannot reset design inside open context (If/Else/Switch etc. block).")
    ELSE [s EXCEPT !.dict = <<>>, !.els = NoCtx, !.idc = 0]

---------------------------------------------------------------------------
(* ChipySnippet, ChipySignal, ChipyModule. *)

ChipySnippet == [indent_str |-> "    ", text_lines |-> <<>>, lvalue_signals |-> {}]

NewSignal(module, name) ==
    [name |-> name, module |-> module, width |-> 1, signed |-> FALSE,
     register |-> FALSE, regaction |-> FALSE, inport |-> FALSE,
     outport |-> FALSE, vlog_rvalue |-> None, vlog_lvalue |-> None,
     vlog_reg |-> FALSE, memory |-> None, materialize |-> FALSE,
     gotassign |-> FALSE, portalias |-> None, deps |-> {}]

\* ChipySignal.__init__ with a name and const=False
ChipySignal(s, module, name) ==
    IF name \in DOMAIN s.mods[module].signals
    THEN Raise(s, "ChipyError: Signal name " \o name \o " already in use in module " \o module)
    ELSE [s EXCEPT !.mods[module].signals = @ @@ (name :> NewSignal(module, name))]

\* ChipySignal.__init__ with name=None: the name is taken from ChipyAutoName
ChipySignalAuto(s, module) ==
    LET s1 == ChipyAutoName(s) IN ChipySignal(s1, module, AutoNameOf(s1))

NewModule(name) ==
    [name |-> name, signals |-> <<>>, memories |-> <<>>, regactions |-> <<>>,
     instances |-> <<>>, init_snippets |-> <<>>, code_snippets |-> <<>>]

\* ChipyModule.__init__ (AddModule)
ChipyModule(s, name) ==
    IF name \in Range(s.dict)
    THEN Raise(s, "ChipyError: Module name " \o name \o " already in use")
    ELSE [s EXCEPT !.mods = (name :> NewModule(name)) @@ @,
                   !.dict = Append(@, name)]

\* ChipySignal.get_deps: the signal and, transitively, its deps (by name)
RECURSIVE get_deps(_, _)
get_deps(sigs, n) ==
    IF n \notin DOMAIN sigs THEN {n}
    ELSE {n} \cup UNION {get_deps(sigs, d) : d \in sigs[n].deps}

\* ChipySignal.set_materialize on the signals of one module
RECURSIVE set_materialize(_, _)
RECURSIVE MaterializeAll(_, _)
MaterializeAll(sigs, ds) ==
    IF ds = {} THEN sigs
    ELSE LET d == CHOOSE x \in ds : TRUE
         IN MaterializeAll(set_materialize(sigs, d), ds \ {d})
set_materialize(sigs, n) ==
    IF n \notin DOMAIN sigs THEN sigs
    ELSE IF sigs[n].materialize THEN sigs
    ELSE MaterializeAll([sigs EXCEPT ![n].materialize = TRUE], sigs[n].deps)

\* set_materialize that does not follow the deps
MaterializeShallow(s, m, n) ==
    IF m = None THEN s
    ELSE [s EXCEPT !.mods[m].signals[n].materialize = TRUE]

\* signal.set_materialize() for the signal n of module m
Materialize(s, m, n) ==
    IF m = None THEN s
    ELSE [s EXCEPT !.mods[m].signals = set_materialize(@, n)]


---------------------------------------------------------------------------
(* ChipyContext. *)

\* ChipyContext.__init__: a new context object; its index is Len(s.ctxs)
NewContext(s, newmod) ==
    [s EXCEPT !.ctxs = Append(@, [module |-> newmod, snippet |-> 0, parent |-> Unset])]

\* the snippet object a context refers to (an index into its module's
\* code_snippets; 0 is None)
SnippetOf(s, c) == s.mods[s.ctxs[c].module].code_snippets[s.ctxs[c].snippet]

\* pushctx that takes the module and the snippet of the enclosing context
\* also when the context has them already
pushctxInherit(s, c) ==
    IF s.ctxs[c].parent \notin {Unset, NoCtx}
    THEN Raise(s, "ValueError: Trying to enter context that is already open.")
    ELSE LET s1 == [s EXCEPT !.ctxs[c].parent = s.cur]
         IN IF s1.cur = NoCtx
            THEN IF s1.ctxs[c].module = None
                 THEN Raise(s1, AttributeError)
                 ELSE [s1 EXCEPT !.cur = c]
            ELSE [s1 EXCEPT !.ctxs[c].module = s1.ctxs[s1.cur].module,
                            !.ctxs[c].snippet = s1.ctxs[s1.cur].snippet,
                            !.cur = c]

\* ChipyContext.pushctx
pushctx(s, c) ==
    IF s.ctxs[c].parent \notin {Unset, NoCtx}
    THEN Raise(s, "ValueError: Trying to enter context that is already open.")
    ELSE LET s1 == [s EXCEPT !.ctxs[c].parent = s.cur]
         IN IF s1.ctxs[c].module = None
            THEN IF s1.cur = NoCtx
                 THEN Raise(s1, AttributeError)
                 ELSE [s1 EXCEPT !.ctxs[c].module = s1.ctxs[s1.cur].module,
                                 !.ctxs[c].snippet = s1.ctxs[s1.cur].snippet,
                                 !.cur = c]
            ELSE [s1 EXCEPT !.cur = c]

\* popctx that leaves the context its parent
popctxKeepParent(s, c) ==
    IF s.ctxs[c].parent = Unset
    THEN Raise(s, AttributeError)
    ELSE [s EXCEPT !.cur = s.ctxs[c].parent]

\* ChipyContext.popctx
popctx(s, c) ==
    IF s.ctxs[c].parent = Unset
    THEN Raise(s, AttributeError)
    ELSE [s EXCEPT !.cur = s.ctxs[c].parent, !.ctxs[c].parent = NoCtx]

\* ChipyContext.add_line; lvalues is a set of names ({} stands for None, which
\* updates nothing either)
add_line(s, c, line, lvalues) ==
    IF s.ctxs[c].parent = Unset THEN Raise(s, AttributeError)
    ELSE IF s.ctxs[c].parent = NoCtx
    THEN Raise(s, "ValueError: Trying to add line to closed context.")
    ELSE IF s.ctxs[c].snippet = 0 /\ s.ctxs[c].module = None
    THEN Raise(s, AttributeError)
    ELSE LET m == s.ctxs[c].module
             s1 == IF s.ctxs[c].snippet = 0
                   THEN [s EXCEPT !.mods[m].code_snippets = Append(@, ChipySnippet),
                                  !.ctxs[c].snippet = Len(s.mods[m].code_snippets) + 1]
                   ELSE s
             k == s1.ctxs[c].snippet
         IN [s1 EXCEPT !.mods[m].code_snippets[k].lvalue_signals = @ \cup lvalues,
                       !.mods[m].code_snippets[k].text_lines =
                           Append(@, s1.mods[m].code_snippets[k].indent_str \o line)]

\* ChipyContext.add_indent
add_indent(s, c) ==
    IF s.ctxs[c].parent = Unset THEN Raise(s, AttributeError)
    ELSE IF s.ctxs[c].parent = NoCtx
    THEN Raise(s, "ValueError: Trying to add indent to closed context.")
    ELSE IF s.ctxs[c].snippet = 0 THEN Raise(s, AttributeError)
    ELSE [s EXCEPT !.mods[s.ctxs[c].module].code_snippets[s.ctxs[c].snippet].indent_str
                       = @ \o "  "]

\* ChipyContext.remove_indent
remove_indent(s, c) ==
    IF s.ctxs[c].parent = Unset THEN Raise(s, AttributeError)
    ELSE IF s.ctxs[c].parent = NoCtx
    THEN Raise(s, "ValueError: Trying to remove indent from closed context.")
    ELSE IF s.ctxs[c].snippet = 0 THEN Raise(s, AttributeError)
    ELSE [s EXCEPT !.mods[s.ctxs[c].module].code_snippets[s.ctxs[c].snippet].indent_str
                       = SubSeq(@, 3, Len(@))]

\* ChipyContext.block up to its yield
BlockBegin(s, c, begin) ==
    LET s1 == pushctx(s, c) IN
    IF Raised(s1) THEN s1 ELSE
    LET s2 == add_line(s1, c, begin, {}) IN
    IF Raised(s2) THEN s2 ELSE add_indent(s2, c)

\* ChipyContext.block after its yield
BlockEnd(s, c, end) ==
    LET s1 == remove_indent(s, c) IN
    IF Raised(s1) THEN s1 ELSE
    LET s2 == add_line(s1, c, end, {}) IN
    IF Raised(s2) THEN s2 ELSE popctx(s2, c)

\* ChipyModule.__enter__
ModuleEnter(s, name) ==
    LET s1 == NewContext(s, name) IN pushctx(s1, Len(s1.ctxs))

\* ChipyModule.__exit__
ModuleExit(s) ==
    IF s.cur = NoCtx THEN Raise(s, AttributeError) ELSE popctx(s, s.cur)

---------------------------------------------------------------------------
(* Registers and their synchronization elements. *)

\* Sig(arg) for an integer: the name of the constant (width None is -32)
SigInt(arg, width) ==
    ToString(Abs(width)) \o "'" \o (IF width < 0 THEN "s" ELSE "") \o "d" \o ToString(arg)

\* Sig(arg, width) for an integer: a constant signal of no module
SigConst(arg, width) ==
    [NewSignal(None, SigInt(arg, width)) EXCEPT !.width = Abs(width),
                                                !.signed = (width < 0)]

\* Sig(n) for an operand: the signal n of module m or, m being None, the
\* constant of the integer n
SigAt(s, m, n) == IF m = None THEN SigConst(n, -32) ELSE s.mods[m].signals[n]

\* FFDefault that ignores nodefault
FFDefaultHold(signal, nodefault) ==
    signal.vlog_lvalue \o " = " \o signal.name \o ";"

\* the default line of a register: its hold value, or 'bx
FFDefault(signal, nodefault) ==
    IF nodefault
    THEN signal.vlog_lvalue \o " = " \o ToString(signal.width) \o "'bx;"
    ELSE signal.vlog_lvalue \o " = " \o signal.name \o ";"

\* the init snippet of a register: one line, and the register as its lvalue
InitSnippet(signal, line) ==
    [ChipySnippet EXCEPT !.text_lines = Append(@, ChipySnippet.indent_str \o line),
                         !.lvalue_signals = {signal.name}]

\* the regaction line of a flip-flop; clock is the name the source formats
FFAction(edge, clock, signal) ==
    "  always @(" \o edge \o " " \o clock \o ") " \o signal.name
        \o " <= " \o signal.vlog_lvalue \o ";"

\* AddFF on the signal n of module m; posedge and negedge are the clock
\* signals' names or None
AddFF(s, m, n, posedge, negedge, nodefault) ==
    LET signal == SigAt(s, m, n) IN
    IF ~signal.register
    THEN Raise(s, "ChipyError: AddFF called on non-register signal")
    ELSE IF signal.regaction
    THEN Raise(s, "ChipyError: AddFF called on register with regaction already set")
    ELSE
    LET s1 == [s EXCEPT !.mods[m].init_snippets =
                           Append(@, InitSnippet(signal, FFDefault(signal, nodefault)))]
    IN
    IF (posedge = None) = (negedge = None)
    THEN Raise(s1, "ValueError: posedge XOR negedge must be given")
    ELSE
    LET s2 == IF posedge # None
              THEN [s1 EXCEPT
                       !.mods[m].regactions = Append(@, FFAction("posedge", posedge, signal)),
                       !.mods[m].signals[n].vlog_reg = TRUE]
              ELSE s1
    IN
    IF negedge # None
    THEN \* the line is formatted with posedge.name
         IF posedge = None
         THEN Raise(s2, AttributeError)
         ELSE [s2 EXCEPT
                  !.mods[m].regactions = Append(@, FFAction("negedge", posedge, signal)),
                  !.mods[m].signals[n].vlog_reg = TRUE,
                  !.mods[m].signals[n].regaction = TRUE]
    ELSE [s2 EXCEPT !.mods[m].signals[n].regaction = TRUE]

\* AddAsync without the check of regaction
AddAsyncAgain(s, m, n) ==
    LET signal == SigAt(s, m, n) IN
    IF ~signal.register
    THEN Raise(s, "ChipyError: AddAsync called on non-register signal")
    ELSE
    [s EXCEPT !.mods[m].init_snippets =
                  Append(@, InitSnippet(signal, FFDefault(signal, TRUE))),
              !.mods[m].regactions = Append(@,
                  "  assign " \o signal.name \o " = " \o signal.vlog_lvalue \o ";"),
              !.mods[m].signals[n].regaction = TRUE]

\* AddAsync on the signal n of module m
AddAsync(s, m, n) ==
    LET signal == SigAt(s, m, n) IN
    IF ~signal.register
    THEN Raise(s, "ChipyError: AddAsync called on non-register signal")
    ELSE IF signal.regaction
    THEN Raise(s, "ChipyError: AddAsync called on register with regaction already set")
    ELSE
    [s EXCEPT !.mods[m].init_snippets =
                  Append(@, InitSnippet(signal, FFDefault(signal, TRUE))),
              !.mods[m].regactions = Append(@,
                  "  assign " \o signal.name \o " = " \o signal.vlog_lvalue \o ";"),
              !.mods[m].signals[n].regaction = TRUE]

\* AddInput with a single name and an integer type
AddInput(s, name, type) ==
    LET s0 == raiseOutsideContext(s, "AddInput") IN
    IF Raised(s0) THEN s0 ELSE
    LET module == s.ctxs[s.cur].module
        s1 == ChipySignal(s, module, name)
    IN
    IF Raised(s1) THEN s1 ELSE
    Materialize([s1 EXCEPT !.mods[module].signals[name].width = Abs(type),
                           !.mods[module].signals[name].signed = (type < 0),
                           !.mods[module].signals[name].inport = TRUE],
                module, name)

\* the part AddReg and AddOutput share: the register signal, then AddFF and
\* AddAsync as the options ask
RegisterSignal(s, name, type, posedge, negedge, nodefault, async, outport) ==
    LET module == s.ctxs[s.cur].module
        s1 == ChipySignal(s, module, name)
    IN
    IF Raised(s1) THEN s1 ELSE
    LET s2 == Materialize(
                  [s1 EXCEPT !.mods[module].signals[name].width = Abs(type),
                             !.mods[module].signals[name].signed = (type < 0),
                             !.mods[module].signals[name].outport = outport,
                             !.mods[module].signals[name].register = TRUE,
                             !.mods[module].signals[name].vlog_lvalue = "__next__" \o name],
                  module, name)
        s3 == IF posedge # None \/ negedge # None
              THEN AddFF(s2, module, name, posedge, negedge, nodefault)
              ELSE s2
    IN
    IF Raised(s3) THEN s3 ELSE
    IF async THEN AddAsync(s3, module, name) ELSE s3

\* AddReg with a single name and an integer type
AddReg(s, name, type, posedge, negedge, nodefault, async) ==
    LET s0 == raiseOutsideContext(s, "AddReg") IN
    IF Raised(s0) THEN s0
    ELSE RegisterSignal(s, name, type, posedge, negedge, nodefault, async, FALSE)

\* AddOutput with a single name and an integer type
AddOutput(s, name, type, posedge, negedge, nodefault, async) ==
    LET s0 == raiseOutsideContext(s, "AddOutput") IN
    IF Raised(s0) THEN s0
    ELSE RegisterSignal(s, name, type, posedge, negedge, nodefault, async, TRUE)

\* ChipyModule.intf (prefix "") called back by AddPort: the ports of the
\* module type in sorted order, each with the output flag the role gives it
Intf(s, type, role) ==
    LET sigs == s.mods[type].signals
        ports == SelectSeq(Sorted(DOMAIN sigs),
                           LAMBDA n : sigs[n].inport \/ sigs[n].outport)
    IN [i \in 1..Len(ports) |->
           [name |-> ports[i], width |-> sigs[ports[i]].width,
            output |-> \/ (sigs[ports[i]].inport /\ role = "parent")
                       \/ (sigs[ports[i]].outport /\ role = "child")]]

\* addport of AddPort for the ports left, all of integer type; the role is
\* "parent" or "child", so the output flag decides; bundle is the bundle so far
RECURSIVE AddPorts(_, _, _, _)
AddPorts(s, name, ports, bundle) ==
    IF ports = <<>> \/ Raised(s) THEN [state |-> s, bundle |-> bundle]
    ELSE LET port == Head(ports)
             signame == (IF name # "" THEN name \o "__" ELSE "") \o port.name
             s1 == IF port.output
                   THEN AddOutput(s, signame, port.width, None, None, FALSE, FALSE)
                   ELSE AddInput(s, signame, port.width)
         IN AddPorts(s1, name, Tail(ports),
                     IF Raised(s1) THEN bundle
                     ELSE Append(bundle, [member |-> port.name, signal |-> signame]))

\* AddPort(name, type.intf(), role): the state and the bundle (its members
\* in insertion order, each with the name of its signal)
AddPort(s, name, type, role) == AddPorts(s, name, Intf(s, type, role), <<>>)

\* signal.inport = False; signal.outport = False for the signals of a bundle
ClearPorts(sigs, bundle) ==
    [n \in DOMAIN sigs |->
        IF \E i \in DOMAIN bundle : bundle[i].signal = n
        THEN [sigs[n] EXCEPT !.inport = FALSE, !.outport = FALSE]
        ELSE sigs[n]]

\* AddInst with a single name; type is the name of the module instantiated
AddInst(s, name, type) ==
    LET s0 == raiseOutsideContext(s, "AddInst") IN
    IF Raised(s0) THEN s0 ELSE
    LET module == s.ctxs[s.cur].module
        r == AddPort(s, name, type, "parent")
    IN IF Raised(r.state) THEN r.state
       ELSE [r.state EXCEPT
                !.mods[module].signals = ClearPorts(@, r.bundle),
                !.mods[module].instances =
                    Append(@, [name |-> name, type |-> type, bundle |-> r.bundle])]

---------------------------------------------------------------------------
(* Expressions. *)

\* ChipySameModule that looks at the operands only
ChipySameModuleOperands(s, ms) ==
    LET s0 == raiseOutsideContext(s, "ChipySameModule") IN
    IF Raised(s0) THEN s0 ELSE
    IF Cardinality(ms \ {None}) # 1
    THEN Raise(s, "ValueError: Modules are none or not the same.")
    ELSE s

\* ChipySameModule: the module, or None with the exception raised
ChipySameModule(s, ms) ==
    LET s0 == raiseOutsideContext(s, "ChipySameModule") IN
    IF Raised(s0) THEN s0 ELSE
    LET mods == ({s.ctxs[s.cur].module} \cup ms) \ {None} IN
    IF Cardinality(mods) # 1
    THEN Raise(s, "ValueError: Modules are none or not the same.")
    ELSE s

SameModuleOf(s, ms) == CHOOSE m \in ({s.ctxs[s.cur].module} \cup ms) \ {None} : TRUE

\* ChipyUnaryOp on the signal a of module am (signprop and logicout as given)
ChipyUnaryOp(s, vlogop, am, a, signprop, logicout) ==
    LET s0 == ChipySameModule(s, {am}) IN
    IF Raised(s0) THEN s0 ELSE
    LET module == SameModuleOf(s, {am})
        s1 == ChipySignalAuto(s, module)
        n == AutoNameOf(s1)
        sa == SigAt(s, am, a)
    IN
    IF Raised(s1) THEN s1 ELSE
    [s1 EXCEPT !.mods[module].signals[n].signed = (sa.signed /\ signprop),
               !.mods[module].signals[n].width = IF logicout THEN 1 ELSE sa.width,
               !.mods[module].signals[n].vlog_rvalue = vlogop \o " " \o sa.name,
               !.mods[module].signals[n].deps = {sa.name}]

\* ChipyBinaryOp with every result signed
ChipyBinaryOpSigned(s, vlogop, am, a, bm, b, signprop, leftwidth) ==
    LET s0 == ChipySameModule(s, {am, bm}) IN
    IF Raised(s0) THEN s0 ELSE
    LET module == SameModuleOf(s, {am, bm})
        s1 == ChipySignalAuto(s, module)
        n == AutoNameOf(s1)
        sa == SigAt(s, am, a)
        sb == SigAt(s, bm, b)
    IN
    IF Raised(s1) THEN s1 ELSE
    [s1 EXCEPT !.mods[module].signals[n].width =
                   IF leftwidth THEN sa.width ELSE Max(sa.width, sb.width),
               !.mods[module].signals[n].signed = signprop,
               !.mods[module].signals[n].vlog_rvalue =
                   sa.name \o " " \o vlogop \o " " \o sb.name,
               !.mods[module].signals[n].deps = {sa.name, sb.name}]

\* ChipyBinaryOp on the signals a of module am and b of module bm
ChipyBinaryOp(s, vlogop, am, a, bm, b, signprop, leftwidth) ==
    LET s0 == ChipySameModule(s, {am, bm}) IN
    IF Raised(s0) THEN s0 ELSE
    LET module == SameModuleOf(s, {am, bm})
        s1 == ChipySignalAuto(s, module)
        n == AutoNameOf(s1)
        sa == SigAt(s, am, a)
        sb == SigAt(s, bm, b)
    IN
    IF Raised(s1) THEN s1 ELSE
    [s1 EXCEPT !.mods[module].signals[n].width =
                   IF leftwidth THEN sa.width ELSE Max(sa.width, sb.width),
               !.mods[module].signals[n].signed =
                   IF leftwidth THEN sa.signed /\ signprop
                   ELSE sa.signed /\ sb.signed /\ signprop,
               !.mods[module].signals[n].vlog_rvalue =
                   sa.name \o " " \o vlogop \o " " \o sb.name,
               !.mods[module].signals[n].deps = {sa.name, sb.name}]

\* the operators of ChipySignal that take the defaults of ChipyBinaryOp
BinaryOperators == {"+", "-", "*", "/", "%", "**", "&", "^", "|"}

\* the operators of ChipySignal that pass leftwidth=True
ShiftOperators == {"<<<", ">>>"}

\* what a host program writes between the brackets of signal[...]: an
\* integer, a slice start:stop, a signal, a tuple (integer, width), a tuple
\* (signal, width), or a string
IndexInt(i) == [kind |-> "int", i |-> i, j |-> 0, n |-> None]
IndexSlice(start, stop) == [kind |-> "slice", i |-> start, j |-> stop, n |-> None]
IndexSig(n) == [kind |-> "signal", i |-> 0, j |-> 0, n |-> n]
IndexRange(i, width) == [kind |-> "range", i |-> i, j |-> width, n |-> None]
IndexSigRange(n, width) == [kind |-> "sigrange", i |-> 0, j |-> width, n |-> n]
IndexStr(n) == [kind |-> "str", i |-> 0, j |-> 0, n |-> n]

NotImplementedError == "NotImplementedError: Indexing with object of type str not implemented"

\* ChipySignal.__getitem__ that gives the result no lvalue
SignalGetItemNoLvalue(s, m, n, index) ==
    LET self == SigAt(s, m, n)
        self_name == IF self.memory = None THEN self.name ELSE self.vlog_rvalue
        self_deps == IF self.memory = None THEN {self.name} ELSE {}
        s1 == ChipySignalAuto(s, m)
        r == AutoNameOf(s1)
        made(width, text) ==
            [s1 EXCEPT !.mods[m].signals[r].memory = self.memory,
                       !.mods[m].signals[r].width = width,
                       !.mods[m].signals[r].deps = self_deps,
                       !.mods[m].signals[r].vlog_rvalue = self_name \o "[" \o text \o "]"]
        updown == IF index.j >= 0 THEN "+" ELSE "-"
        msb == Max(index.i, index.j)
        lsb == IF index.i <= index.j THEN index.i ELSE index.j
    IN
    IF index.kind = "str" THEN Raise(s, NotImplementedError)
    ELSE IF Raised(s1) THEN s1
    ELSE CASE index.kind = "range" ->
                  made(Abs(index.j), ToString(index.i) \o " " \o updown \o ": "
                                         \o ToString(Abs(index.j)))
           [] index.kind = "sigrange" ->
                  Materialize(made(Abs(index.j), index.n \o " " \o updown \o ": "
                                                     \o ToString(Abs(index.j))),
                              m, index.n)
           [] index.kind = "slice" ->
                  made(msb - lsb + 1, ToString(msb) \o ":" \o ToString(lsb))
           [] index.kind = "signal" -> Materialize(made(1, index.n), m, index.n)
           [] index.kind = "int" -> made(1, ToString(index.i))

\* ChipySignal.__getitem__ on the signal n of module m: the fresh signal has
\* the name ChipyAutoName gives; an index that is none of the five raises
\* before a signal is made
SignalGetItem(s, m, n, index) ==
    LET self == SigAt(s, m, n)
        self_name == IF self.memory = None THEN self.name ELSE self.vlog_rvalue
        self_deps == IF self.memory = None THEN {self.name} ELSE {}
        s1 == ChipySignalAuto(s, m)
        r == AutoNameOf(s1)
        made(width, text) ==
            [s1 EXCEPT !.mods[m].signals[r].memory = self.memory,
                       !.mods[m].signals[r].width = width,
                       !.mods[m].signals[r].deps = self_deps,
                       !.mods[m].signals[r].vlog_rvalue = self_name \o "[" \o text \o "]",
                       !.mods[m].signals[r].vlog_lvalue =
                           IF self.vlog_lvalue = None THEN None
                           ELSE self.vlog_lvalue \o "[" \o text \o "]"]
        updown == IF index.j >= 0 THEN "+" ELSE "-"
        msb == Max(index.i, index.j)
        lsb == IF index.i <= index.j THEN index.i ELSE index.j
    IN
    IF index.kind = "str" THEN Raise(s, NotImplementedError)
    ELSE IF Raised(s1) THEN s1
    ELSE CASE index.kind = "range" ->
                  made(Abs(index.j), ToString(index.i) \o " " \o updown \o ": "
                                         \o ToString(Abs(index.j)))
           [] index.kind = "sigrange" ->
                  Materialize(made(Abs(index.j), index.n \o " " \o updown \o ": "
                                                     \o ToString(Abs(index.j))),
                              m, index.n)
           [] index.kind = "slice" ->
                  made(msb - lsb + 1, ToString(msb) \o ":" \o ToString(lsb))
           [] index.kind = "signal" -> Materialize(made(1, index.n), m, index.n)
           [] index.kind = "int" -> made(1, ToString(index.i))

\* Sig(arg, width) for the signal arg of module am and a width that is given
SigWidth(s, am, arg, width) ==
    LET s0 == ChipySameModule(s, {am}) IN
    IF Raised(s0) THEN s0 ELSE
    LET module == SameModuleOf(s, {am})
        s1 == ChipySignalAuto(s, module)
        n == AutoNameOf(s1)
    IN
    IF Raised(s1) THEN s1 ELSE
    [s1 EXCEPT !.mods[module].signals[n].signed = (width < 0),
               !.mods[module].signals[n].width = Abs(width),
               !.mods[module].signals[n].vlog_rvalue = arg,
               !.mods[module].signals[n].deps = {arg}]

\* Repeat(num, sig) for the signal sig of module m, called inside a
\* with-block: the new signal is one of the module of the current context
Repeat(s, num, m, sig) ==
    LET module == s.ctxs[s.cur].module
        s1 == ChipySignalAuto(s, module)
        n == AutoNameOf(s1)
    IN
    IF Raised(s1) THEN s1 ELSE
    [s1 EXCEPT !.mods[module].signals[n].width = num * SigAt(s, m, sig).width,
               !.mods[module].signals[n].vlog_rvalue =
                   "{" \o ToString(num) \o "{" \o sig \o "}}",
               !.mods[module].signals[n].deps = {sig}]

\* ",".join(strs)
RECURSIVE JoinComma(_)
JoinComma(strs) ==
    IF strs = <<>> THEN ""
    ELSE IF Len(strs) = 1 THEN strs[1]
    ELSE strs[1] \o "," \o JoinComma(Tail(strs))

\* the sum of the widths of the signals sigs of module m
RECURSIVE WidthOf(_, _, _)
WidthOf(s, m, sigs) ==
    IF sigs = <<>> THEN 0 ELSE SigAt(s, m, Head(sigs)).width + WidthOf(s, m, Tail(sigs))

\* Concat(sigs) for signals of module m, called inside a with-block; the
\* result has an lvalue if every signal has one
Concat(s, m, sigs) ==
    LET module == s.ctxs[s.cur].module IN
    IF sigs # <<>> /\ module # m
    THEN Raise(s, "ChipyError: Trying to Concat signals across module boundaries")
    ELSE
    LET s1 == ChipySignalAuto(s, module)
        n == AutoNameOf(s1)
        lvalues == [i \in DOMAIN sigs |-> SigAt(s, m, sigs[i]).vlog_lvalue]
    IN
    IF Raised(s1) THEN s1 ELSE
    [s1 EXCEPT !.mods[module].signals[n].width = WidthOf(s, m, sigs),
               !.mods[module].signals[n].vlog_rvalue = "{" \o JoinComma(sigs) \o "}",
               !.mods[module].signals[n].vlog_lvalue =
                   IF \E i \in DOMAIN lvalues : lvalues[i] = None THEN None
                   ELSE "{" \o JoinComma(lvalues) \o "}",
               !.mods[module].signals[n].deps = Range(sigs)]

---------------------------------------------------------------------------
(* Memories. *)

\* the index of the memory name in the memories of a module (its dict, in
\* insertion order)
MemoryAt(mems, name) == CHOOSE i \in DOMAIN mems : mems[i].name = name

\* ChipyMemory.__init__: a name that is None is taken from ChipyAutoName,
\* before the clock arguments are looked at
ChipyMemory(s, module, width, depth, given, posedge, negedge, signed) ==
    LET s1 == IF given = None THEN ChipyAutoName(s) ELSE s
        name == IF given = None THEN AutoNameOf(s1) ELSE given
    IN
    IF (posedge = None) = (negedge = None)
    THEN Raise(s1, "ValueError: posedge XOR negedge must be given")
    ELSE IF \E i \in DOMAIN s.mods[module].memories : s.mods[module].memories[i].name = name
    THEN Raise(s1, "ChipyError: Memory name " \o name \o " already in use")
    ELSE [s1 EXCEPT !.mods[module].memories =
                       Append(@, [name |-> name, module |-> module, width |-> width,
                                  depth |-> depth, posedge |-> posedge,
                                  negedge |-> negedge, signed |-> signed,
                                  regactions |-> <<>>])]

\* AddMemory with a single name and an integer type
AddMemory(s, name, type, depth, posedge, negedge) ==
    LET s0 == raiseOutsideContext(s, "AddMemory") IN
    IF Raised(s0) THEN s0
    ELSE ChipyMemory(s, s.ctxs[s.cur].module, Abs(type), depth, name,
                     posedge, negedge, type < 0)

\* ChipyMemory.__getitem__: the element of the memory mem of module m at the
\* signal index of the same module
MemoryGetItem(s, m, mem, index) ==
    LET memory == s.mods[m].memories[MemoryAt(s.mods[m].memories, mem)]
        s1 == ChipySignalAuto(s, m)
        n == AutoNameOf(s1)
    IN
    IF Raised(s1) THEN s1 ELSE
    [s1 EXCEPT !.mods[m].signals[n].width = memory.width,
               !.mods[m].signals[n].vlog_rvalue = memory.name \o "[" \o index \o "]",
               !.mods[m].signals[n].deps = SigAt(s, m, index).deps,
               !.mods[m].signals[n].memory = memory.name]

---------------------------------------------------------------------------
(* Assign and Connect. *)

\* lhs_dep.gotassign = True for every signal of lhs_deps
MarkGotAssign(sigs, deps) ==
    [n \in DOMAIN sigs |->
        IF n \in deps THEN [sigs[n] EXCEPT !.gotassign = TRUE] ELSE sigs[n]]

\* the context of a `with ChipyContext() as ctx:` statement is referenced by
\* nothing once the statement is left: it is the object allocated last
DropContext(s) == [s EXCEPT !.ctxs = SubSeq(@, 1, Len(@) - 1)]

\* MemoryWrite without the guard
MemoryWriteUnguarded(wen, lhs, rhs) == lhs.vlog_rvalue \o " <= " \o rhs \o ";"

\* the guarded write of a memory element
MemoryWrite(wen, lhs, rhs) ==
    "if (" \o wen \o ") " \o lhs.vlog_rvalue \o " <= " \o rhs \o ";"

\* the branch of Assign for a memory element lhs, after rhs.set_materialize()
AssignMemory(s, lm, lhs, rhs) ==
    LET s1 == ChipySignalAuto(s, lm)
        wen == AutoNameOf(s1)
    IN
    IF Raised(s1) THEN s1 ELSE
    LET s2 == Materialize([s1 EXCEPT !.mods[lm].signals[wen].vlog_reg = TRUE,
                                     !.mods[lm].signals[wen].gotassign = TRUE],
                          lm, wen)
        s3 == [s2 EXCEPT !.mods[lm].init_snippets =
                             Append(@, InitSnippet(SigAt(s2, lm, wen), wen \o " = 1'b0;"))]
        s4 == NewContext(s3, None)
        ctx == Len(s4.ctxs)
        s5 == pushctx(s4, ctx)
    IN
    IF Raised(s5) THEN DropContext(s5) ELSE
    LET s6 == add_line(s5, ctx, wen \o " = 1'b1;", get_deps(s5.mods[lm].signals, wen))
        s7 == DropContext([popctx(s6, ctx) EXCEPT !.exc = s6.exc])
    IN
    IF Raised(s7) THEN s7 ELSE
    [s7 EXCEPT !.mods[lm].memories[MemoryAt(s7.mods[lm].memories,
                                            SigAt(s7, lm, lhs).memory)].regactions =
                   Append(@, MemoryWrite(wen, SigAt(s7, lm, lhs), rhs))]

\* Assign(lhs, rhs) for signals: lhs is the signal lhs of module lm, rhs the
\* signal rhs of module rm (no bundles)
Assign(s, lm, lhs, rm, rhs) ==
    LET s1 == Materialize(s, rm, rhs)
        s2 == NewContext(s1, None)
        ctx == Len(s2.ctxs)
        s3 == pushctx(s2, ctx)
    IN
    IF SigAt(s1, lm, lhs).memory # None THEN AssignMemory(s1, lm, lhs, rhs) ELSE
    IF Raised(s3) THEN DropContext(s3) ELSE
    IF SigAt(s3, lm, lhs).vlog_lvalue = None
    THEN DropContext(Raise(popctx(s3, ctx),
                           "ValueError: Trying to assign to signal with unset lvalue"))
    ELSE
    LET lhs_deps == get_deps(s3.mods[lm].signals, lhs)
        s4 == [s3 EXCEPT !.mods[lm].signals = MarkGotAssign(@, lhs_deps)]
        s5 == add_line(s4, ctx,
                       SigAt(s4, lm, lhs).vlog_lvalue \o " = " \o rhs \o ";", lhs_deps)
    IN DropContext([popctx(s5, ctx) EXCEPT !.exc = s5.exc])

\* what a host program passes to Assign: a signal of the module, by name, or
\* a ChipyBundle with its members in insertion order
SigRef(name) == [kind |-> "signal", name |-> name, members |-> <<>>]
Bundle(members) == [kind |-> "bundle", name |-> None, members |-> members]
Member(name, value) == [name |-> name, value |-> value]

\* Assign(lhs, rhs) for signals and bundles of module m: a bundle lhs takes a
\* bundle rhs and assigns, for its own keys in order, lhs.get(key) from
\* rhs.get(key), which raises KeyError for a key rhs does not have; a signal
\* lhs takes Sig(rhs), which raises TypeError for a bundle
RECURSIVE AssignBundle(_, _, _, _)
RECURSIVE AssignMembers(_, _, _, _, _)
AssignMembers(s, m, lhs, rhs, i) ==
    IF Raised(s) \/ i > Len(lhs.members) THEN s
    ELSE LET key == lhs.members[i].name
             found == {j \in DOMAIN rhs.members : rhs.members[j].name = key}
         IN IF found = {} THEN Raise(s, "KeyError: " \o key)
            ELSE AssignMembers(
                     AssignBundle(s, m, lhs.members[i].value,
                                  rhs.members[CHOOSE j \in found : TRUE].value),
                     m, lhs, rhs, i + 1)
AssignBundle(s, m, lhs, rhs) ==
    IF lhs.kind = "bundle"
    THEN IF rhs.kind # "bundle"
         THEN Raise(s, "ValueError: Can only assign bundles with other bundles")
         ELSE AssignMembers(s, m, lhs, rhs, 1)
    ELSE IF rhs.kind = "bundle"
         THEN Raise(s, "TypeError: Cannot construct Sig from object of type ChipyBundle")
         ELSE Assign(s, m, lhs.name, m, rhs.name)

\* ChipyBundle.__getitem__: a Bundle of member[index] for every member, in
\* order; the result is [state, value]
\* a stand-in for regs() and nonregs() that returns the bundle as it is
BundleItself(s, m, bundle) == bundle

\* ChipyBundle.regs(): a bundle of the members that are registers, in the
\* order of the members; a member that is a bundle is kept under its name as
\* its own regs()
RECURSIVE regs(_, _, _)
RECURSIVE regsFrom(_, _, _, _)
regsFrom(s, m, members, i) ==
    IF i > Len(members) THEN <<>>
    ELSE LET member == members[i]
             rest == regsFrom(s, m, members, i + 1)
         IN IF member.value.kind = "bundle"
            THEN <<Member(member.name, regs(s, m, member.value))>> \o rest
            ELSE IF s.mods[m].signals[member.value.name].register
                 THEN <<member>> \o rest
                 ELSE rest
regs(s, m, bundle) == Bundle(regsFrom(s, m, bundle.members, 1))

\* ChipyBundle.nonregs(): the same with the members that are not registers
RECURSIVE nonregs(_, _, _)
RECURSIVE nonregsFrom(_, _, _, _)
nonregsFrom(s, m, members, i) ==
    IF i > Len(members) THEN <<>>
    ELSE LET member == members[i]
             rest == nonregsFrom(s, m, members, i + 1)
         IN IF member.value.kind = "bundle"
            THEN <<Member(member.name, nonregs(s, m, member.value))>> \o rest
            ELSE IF ~s.mods[m].signals[member.value.name].register
                 THEN <<member>> \o rest
                 ELSE rest
nonregs(s, m, bundle) == Bundle(nonregsFrom(s, m, bundle.members, 1))

RECURSIVE BundleGetItem(_, _, _, _)
RECURSIVE BundleGetItems(_, _, _, _, _, _)
BundleGetItems(s, m, bundle, index, i, got) ==
    IF Raised(s) \/ i > Len(bundle.members) THEN [state |-> s, value |-> Bundle(got)]
    ELSE LET member == bundle.members[i]
             r == IF member.value.kind = "bundle"
                  THEN BundleGetItem(s, m, member.value, index)
                  ELSE LET s1 == SignalGetItem(s, m, member.value.name, index)
                       IN [state |-> s1, value |-> SigRef(AutoNameOf(s1))]
         IN BundleGetItems(r.state, m, bundle, index, i + 1,
                           Append(got, Member(member.name, r.value)))
BundleGetItem(s, m, bundle, index) == BundleGetItems(s, m, bundle, index, 1, <<>>)

\* the keys of a bundle, or of a mapping given as a sequence of members
Keys(members) == {members[i].name : i \in DOMAIN members}

\* Zip(bundles): bundles is a list of bundles (list_mode) or a mapping, given
\* as the sequence of its (key, bundle) members.  For every member name of
\* the first bundle the value is the list, or the mapping, of
\* bundles[key][name]; the result is [state, value] with the returned dict
\* as the sequence of its (name, value) members
RECURSIVE ZipValue(_, _, _, _, _, _, _)
ZipValue(s, m, bundles, list_mode, name, k, got) ==
    IF Raised(s) \/ k > Len(bundles) THEN [state |-> s, value |-> got]
    ELSE LET bundle == IF list_mode THEN bundles[k] ELSE bundles[k].value
             r == BundleGetItem(s, m, bundle, IndexStr(name))
         IN ZipValue(r.state, m, bundles, list_mode, name, k + 1,
                     Append(got, IF list_mode THEN r.value
                                 ELSE Member(bundles[k].name, r.value)))
RECURSIVE ZipNames(_, _, _, _, _, _)
ZipNames(s, m, bundles, list_mode, i, ret) ==
    LET first == IF list_mode THEN bundles[1] ELSE bundles[1].value IN
    IF Raised(s) \/ i > Len(first.members) THEN [state |-> s, value |-> ret]
    ELSE LET name == first.members[i].name
             r == ZipValue(s, m, bundles, list_mode, name, 1, <<>>)
         IN ZipNames(r.state, m, bundles, list_mode, i + 1,
                     Append(ret, Member(name, r.value)))
Zip(s, m, bundles, list_mode) ==
    LET bundles_list == IF list_mode THEN bundles
                        ELSE [k \in DOMAIN bundles |-> bundles[k].value]
    IN
    IF Len(bundles_list) = 0 THEN [state |-> s, value |-> <<>>]
    ELSE IF \E k \in DOMAIN bundles_list :
                Keys(bundles_list[k].members) # Keys(bundles_list[1].members)
    THEN [state |-> Raise(s, "AssertionError"), value |-> <<>>]
    ELSE ZipNames(s, m, bundles, list_mode, 1, <<>>)

\* checkreg that does not count an assignment
checkregNoAssign(sig) == ~sig.register \/ sig.regaction

\* checkreg of Connect
checkreg(sig) == ~sig.register \/ sig.regaction \/ sig.gotassign

\* ConnectSlaves that leaves the flags of a slave as they are
RECURSIVE ConnectSlavesKeepFlags(_, _, _, _, _)
ConnectSlavesKeepFlags(s, module, m, slaves, master) ==
    IF slaves = <<>> THEN s
    ELSE LET n == Head(slaves)
             s1 == [s EXCEPT
                       !.mods[module].regactions =
                           Append(@, "  assign " \o n \o " = " \o master \o ";"),
                       !.mods[m].signals[n].portalias = master]
         IN ConnectSlavesKeepFlags(s1, module, m, Tail(slaves), master)

\* the slaves of a Connect, one after the other
RECURSIVE ConnectSlaves(_, _, _, _, _)
ConnectSlaves(s, module, m, slaves, master) ==
    IF slaves = <<>> THEN s
    ELSE LET n == Head(slaves)
             s1 == [s EXCEPT
                       !.mods[module].regactions =
                           Append(@, "  assign " \o n \o " = " \o master \o ";"),
                       !.mods[m].signals[n].portalias = master,
                       !.mods[m].signals[n].register = FALSE,
                       !.mods[m].signals[n].regaction = FALSE,
                       !.mods[m].signals[n].gotassign = FALSE,
                       !.mods[m].signals[n].vlog_reg = FALSE]
         IN ConnectSlaves(s1, module, m, Tail(slaves), master)

\* Connect(first, second, *rest) for signals of module m, given by name
Connect(s, m, sigs) ==
    LET s0 == raiseOutsideContext(s, "Connect") IN
    IF Raised(s0) THEN s0 ELSE
    LET masters == SelectSeq(sigs, LAMBDA n : checkreg(SigAt(s, m, n)))
        slave_sigs == SelectSeq(sigs, LAMBDA n : ~checkreg(SigAt(s, m, n)))
    IN
    IF Len(masters) = 0
    THEN Raise(s, "ChipyError: Could not identify a master signal in Connect statement")
    ELSE IF Len(masters) > 1
    THEN Raise(s, "ChipyError: Multiple possible masters in Connect statement")
    ELSE ConnectSlaves(s, s.ctxs[s.cur].module, m, slave_sigs, masters[1])

---------------------------------------------------------------------------
(* ChipyModule.write_verilog. *)

\* "[%d:0] " for a width above 1
VlogRange(width) == IF width > 1 THEN "[" \o ToString(width - 1) \o ":0] " ELSE ""

\* the entry of portlist for a materialized port
PortLine(signal) ==
    LET t0 == IF ~signal.inport THEN "output"
              ELSE IF ~signal.outport THEN "input" ELSE "inout"
        t1 == IF signal.signed THEN "signed " \o t0 ELSE t0
        t2 == IF signal.vlog_reg THEN t1 \o " reg" ELSE t1
    IN "  " \o t2 \o " " \o VlogRange(signal.width) \o signal.name

\* WireLine without the range of a vector
WireLineScalar(signal) ==
    "  " \o (IF signal.vlog_reg THEN "reg" ELSE "wire") \o " " \o signal.name \o ";"

\* the entry of wirelist for a materialized signal that is no port
WireLine(signal) ==
    "  " \o (IF signal.vlog_reg THEN "reg" ELSE "wire") \o " "
         \o VlogRange(signal.width) \o signal.name \o ";"

\* the entry of assignlist for a signal with an rvalue
AssignLine(signal) ==
    "  assign " \o signal.name \o " = " \o signal.vlog_rvalue \o ";"

\* the entry of wirelist for the shadow lvalue of a register
NextRegLine(signal) ==
    "  reg " \o VlogRange(signal.width) \o signal.vlog_lvalue \o ";"

\* RegisterCheck without the test of regaction
RegisterCheckNoSync(signal) ==
    IF ~signal.gotassign
    THEN "ChipyError: Register without assignment: " \o signal.module \o "." \o signal.name
    ELSE NoExc

\* the check write_verilog makes of a register: the exception it raises, or NoExc
RegisterCheck(signal) ==
    IF ~signal.gotassign
    THEN "ChipyError: Register without assignment: " \o signal.module \o "." \o signal.name
    ELSE IF ~signal.regaction
    THEN "ChipyError: Register without synchronization element: "
             \o signal.module \o "." \o signal.name
    ELSE NoExc

\* the loop over sorted(self.signals.items()): the lists it builds and the
\* exception that ends it
RECURSIVE SignalLoop(_, _, _)
SignalLoop(sigs, names, acc) ==
    IF names = <<>> \/ acc.status # NoExc THEN acc
    ELSE
    LET signal == sigs[Head(names)]
        isport == signal.inport \/ signal.outport
        a1 == IF isport
              THEN [acc EXCEPT !.portlist = Append(@, PortLine(signal))]
              ELSE [acc EXCEPT
                       !.wirelist = Append(@, WireLine(signal)),
                       !.assignlist = IF signal.vlog_rvalue # None
                                      THEN Append(@, AssignLine(signal)) ELSE @]
        a2 == IF ~signal.register THEN a1
              ELSE IF RegisterCheck(signal) # NoExc
              THEN [a1 EXCEPT !.status = RegisterCheck(signal)]
              ELSE [a1 EXCEPT !.wirelist = Append(@, NextRegLine(signal))]
    IN SignalLoop(sigs, Tail(names),
                  IF ~signal.materialize THEN acc ELSE a2)

\* InstanceLines that names the local signal whatever its portalias
InstanceLinesNoAlias(sigs, inst) ==
    LET ports == [i \in 1..Len(inst.bundle) |->
                     "    ." \o inst.bundle[i].member \o "("
                         \o sigs[inst.bundle[i].signal].name \o "),"]
        lines == <<"  " \o inst.type \o " " \o inst.name \o " (">> \o ports
        last == lines[Len(lines)]
    IN Append([lines EXCEPT ![Len(lines)] = SubSeq(last, 1, Len(last) - 1)], "  );")

\* the instance lines of one instance: a port is connected to the portalias
\* of its signal if it has one; the comma of the last line is cut
InstanceLines(sigs, inst) ==
    LET ports == [i \in 1..Len(inst.bundle) |->
                     LET sig == sigs[inst.bundle[i].signal]
                     IN "    ." \o inst.bundle[i].member \o "("
                         \o (IF sig.portalias = None THEN sig.name ELSE sig.portalias)
                         \o "),"]
        lines == <<"  " \o inst.type \o " " \o inst.name \o " (">> \o ports
        last == lines[Len(lines)]
    IN Append([lines EXCEPT ![Len(lines)] = SubSeq(last, 1, Len(last) - 1)], "  );")

\* the loop over self.instances
RECURSIVE InstanceLoop(_, _)
InstanceLoop(sigs, instances) ==
    IF instances = <<>> THEN <<>>
    ELSE InstanceLines(sigs, Head(instances)) \o InstanceLoop(sigs, Tail(instances))

\* the entry of wirelist for a memory
MemoryLine(memory) ==
    "  " \o (IF memory.signed THEN "signed " ELSE "") \o "reg ["
         \o ToString(memory.width - 1) \o ":0] " \o memory.name
         \o " [0:" \o ToString(memory.depth - 1) \o "];"

\* the loop over sorted(self.memories.items())
MemoryLines(mems) ==
    LET names == Sorted({mems[i].name : i \in DOMAIN mems})
    IN [i \in 1..Len(names) |-> MemoryLine(mems[MemoryAt(mems, names[i])])]

\* the clocked block write_verilog prints for a memory
MemoryBlock(memory) ==
    (IF memory.posedge # None
     THEN <<"  always @(posedge " \o memory.posedge \o ") begin">> ELSE <<>>)
    \o (IF memory.negedge # None
        THEN <<"  always @(negedge " \o memory.negedge \o ") begin">> ELSE <<>>)
    \o [i \in 1..Len(memory.regactions) |-> "    " \o memory.regactions[i]]
    \o <<"  end">>

\* UnionFind_Find, with its path compression: the root and the parents after it
RECURSIVE UnionFind_Find(_, _)
UnionFind_Find(snippet_parent, idx) ==
    IF snippet_parent[idx] # idx
    THEN LET r == UnionFind_Find(snippet_parent, snippet_parent[idx])
         IN [parent |-> [r.parent EXCEPT ![idx] = r.root], root |-> r.root]
    ELSE [parent |-> snippet_parent, root |-> idx]

\* UnionFind_Union on the two indices themselves instead of their roots
UnionFind_UnionNoFind(snippet_parent, idx1, idx2) ==
    [snippet_parent EXCEPT ![idx1] = idx2]

\* UnionFind_Union: the parents after it
UnionFind_Union(snippet_parent, idx1, idx2) ==
    LET f1 == UnionFind_Find(snippet_parent, idx1)
        f2 == UnionFind_Find(f1.parent, idx2)
    IN [f2.parent EXCEPT ![f1.root] = f2.root]

\* the loop over the lvalues of snippet idx (the groups built do not depend
\* on the order in which one snippet's lvalues are visited: Python's order)
RECURSIVE LvalueLoop(_, _, _)
LvalueLoop(uf, idx, lvals) ==
    IF lvals = <<>> THEN uf
    ELSE LET lval == Head(lvals)
         IN LvalueLoop(
                IF lval \notin DOMAIN uf.lvalue_idx
                THEN [uf EXCEPT !.lvalue_idx = @ @@ (lval :> idx)]
                ELSE [uf EXCEPT !.parent =
                         UnionFind_Union(@, idx, uf.lvalue_idx[lval])],
                idx, Tail(lvals))

\* the loop over the snippets that fills snippet_parent and lvalue_idx
RECURSIVE SnippetLoop(_, _, _)
SnippetLoop(snippet_db, idx, uf) ==
    IF idx > Len(snippet_db) THEN uf
    ELSE SnippetLoop(snippet_db, idx + 1,
             LvalueLoop([uf EXCEPT !.parent = Append(@, idx)], idx,
                        Sorted(snippet_db[idx].lvalue_signals)))

\* snippet_groups: for every root in the order of its first snippet, the
\* indices of its snippets in the order of snippet_db
RECURSIVE GroupLoop(_, _, _, _)
GroupLoop(n, idx, parent, acc) ==
    IF idx > n THEN acc
    ELSE LET f == UnionFind_Find(parent, idx)
             at == {k \in 1..Len(acc.roots) : acc.roots[k] = f.root}
         IN GroupLoop(n, idx + 1, f.parent,
                IF at = {}
                THEN [roots |-> Append(acc.roots, f.root),
                      groups |-> Append(acc.groups, <<idx>>)]
                ELSE LET k == CHOOSE x \in at : TRUE
                     IN [acc EXCEPT !.groups[k] = Append(@, idx)])

snippet_groups(snippet_db) ==
    GroupLoop(Len(snippet_db), 1,
              SnippetLoop(snippet_db, 1, [parent |-> <<>>, lvalue_idx |-> <<>>]).parent,
              [roots |-> <<>>, groups |-> <<>>]).groups

\* the text lines of the snippets of one group, in order
RECURSIVE GroupLines(_, _)
GroupLines(snippet_db, group) ==
    IF group = <<>> THEN <<>>
    ELSE snippet_db[Head(group)].text_lines \o GroupLines(snippet_db, Tail(group))

\* snippet_db with the code snippets first
SnippetDbCodeFirst(module) == module.code_snippets \o module.init_snippets

\* snippet_db
SnippetDb(module) == module.init_snippets \o module.code_snippets

\* write_verilog of a module: what it prints (the lines between
\* "  always @* begin" and "  end" for every group), or the exception
write_verilog(module) ==
    LET lists == SignalLoop(module.signals, Sorted(DOMAIN module.signals),
                            [status |-> NoExc, portlist |-> <<>>,
                             wirelist |-> MemoryLines(module.memories),
                             assignlist |-> <<>>])
        snippet_db == SnippetDb(module)
        groups == snippet_groups(snippet_db)
    IN IF lists.status # NoExc
       THEN [status |-> lists.status, module |-> module.name]
       ELSE [status |-> NoExc, module |-> module.name,
             portlist |-> lists.portlist, wirelist |-> lists.wirelist,
             assignlist |-> lists.assignlist,
             groups |-> groups,
             always |-> [g \in 1..Len(groups) |-> GroupLines(snippet_db, groups[g])],
             regactions |-> module.regactions,
             instance_lines |-> InstanceLoop(module.signals, module.instances),
             memory_blocks |-> [i \in DOMAIN module.memories |->
                                   MemoryBlock(module.memories[i])]]

---------------------------------------------------------------------------
(* If, ElseIf, Else, Switch, Case, Default: each up to its yield (Begin) and *)
(* after it (End).  The context a Begin entered is Len(s.ctxs) for the       *)
(* blocks that allocate one and s.els for Else.                              *)

IfBegin(s, cm, cond) ==
    LET s1 == Materialize([s EXCEPT !.els = NoCtx], cm, cond)
        s2 == NewContext(s1, None)
    IN BlockBegin(s2, Len(s2.ctxs), "if (" \o cond \o ") begin")

IfEnd(s, ctx) == BlockEnd([s EXCEPT !.els = ctx], ctx, "end")

ElseIfBegin(s, cm, cond) ==
    LET s1 == Materialize([s EXCEPT !.els = NoCtx], cm, cond) IN
    IF s1.els = NoCtx
    THEN Raise(s1, AttributeError)
    ELSE BlockBegin(s1, s1.els, "else if (" \o cond \o ") begin")

ElseIfEnd(s, ctx) == BlockEnd([s EXCEPT !.els = ctx], ctx, "end")

ElseBegin(s) ==
    IF s.els = NoCtx
    THEN Raise(s, "ChipyError: Cannot find matching If/IfElse for Else")
    ELSE
    LET ctx == s.els
        s1 == pushctx(s, ctx)
    IN
    IF Raised(s1) THEN s1 ELSE
    LET s2 == add_line(s1, ctx, "else begin", {}) IN
    IF Raised(s2) THEN popctx(s2, ctx) ELSE
    LET s3 == add_indent(s2, ctx) IN
    IF Raised(s3) THEN popctx(s3, ctx) ELSE s3

ElseEnd(s, ctx) ==
    LET s1 == remove_indent([s EXCEPT !.els = ctx], ctx) IN
    IF Raised(s1) THEN popctx(s1, ctx) ELSE
    popctx(add_line(s1, ctx, "end", {}), ctx)

SwitchBegin(s, em, expr, parallel, full) ==
    LET s1 == NewContext([s EXCEPT !.els = NoCtx], None)
        ctx == Len(s1.ctxs)
        s2 == Materialize(s1, em, expr)
        s3 == IF parallel THEN add_line(s2, ctx, "(* parallel_case *)", {}) ELSE s2
    IN
    IF Raised(s3) THEN s3 ELSE
    LET s4 == IF full THEN add_line(s3, ctx, "(* full_case *)", {}) ELSE s3 IN
    IF Raised(s4) THEN s4 ELSE
    BlockBegin(s4, ctx, "case (" \o expr \o ")")

SwitchEnd(s, ctx) == BlockEnd([s EXCEPT !.els = NoCtx], ctx, "endcase")

CaseBegin(s, em, expr) ==
    LET s1 == [Materialize(s, em, expr) EXCEPT !.els = NoCtx]
        s2 == NewContext(s1, None)
    IN BlockBegin(s2, Len(s2.ctxs), expr \o ": begin")

CaseEnd(s, ctx) == BlockEnd([s EXCEPT !.els = NoCtx], ctx, "end")

DefaultBegin(s) ==
    LET s1 == NewContext([s EXCEPT !.els = NoCtx], None)
    IN BlockBegin(s1, Len(s1.ctxs), "default: begin")

DefaultEnd(s, ctx) == BlockEnd([s EXCEPT !.els = NoCtx], ctx, "end")

---------------------------------------------------------------------------
(* The host program: its with-blocks and what an exception does to them. *)

Frame(kind, ctx) == [kind |-> kind, ctx |-> ctx]

\* An exception leaves the open with-blocks innermost first.  The blocks of
\* ChipyContext.block are generators without a finally: nothing runs.  Else
\* holds its context in a with statement, and a module is one: __exit__ runs.
RECURSIVE Unwind(_, _)
Unwind(s, frames) ==
    IF frames = <<>> THEN s
    ELSE LET f == frames[Len(frames)]
             rest == SubSeq(frames, 1, Len(frames) - 1)
         IN IF f.kind = "Else" THEN Unwind(popctx(s, f.ctx), rest)
            ELSE IF f.kind = "module" THEN Unwind(ModuleExit(s), rest)
            ELSE Unwind(s, rest)

\* the state after a builder call that ended in state s: the variables are
\* set from it; a raised exception propagates out of every open with-block
Return(s, call, frames) ==
    LET u == IF Raised(s) THEN Unwind(s, withs) ELSE s IN
    /\ modules' = u.mods
    /\ ChipyModulesDict' = u.dict
    /\ contexts' = u.ctxs
    /\ ChipyCurrentContext' = u.cur
    /\ ChipyElseContext' = u.els
    /\ ChipyIdCounter' = u.idc
    /\ withs' = IF Raised(s) THEN <<>> ELSE frames
    /\ exc' = u.exc
    /\ hist' = Append(hist, call)
    /\ calls' = calls + 1
    /\ UNCHANGED <<out, budget, threads, dicts>>

\* the state after the end of the innermost with-block, which is no call of
\* the budget
Exit(s, call) ==
    LET u == IF Raised(s) THEN Unwind(s, SubSeq(withs, 1, Len(withs) - 1)) ELSE s IN
    /\ modules' = u.mods
    /\ ChipyModulesDict' = u.dict
    /\ contexts' = u.ctxs
    /\ ChipyCurrentContext' = u.cur
    /\ ChipyElseContext' = u.els
    /\ ChipyIdCounter' = u.idc
    /\ withs' = IF Raised(s) THEN <<>> ELSE SubSeq(withs, 1, Len(withs) - 1)
    /\ exc' = u.exc
    /\ hist' = Append(hist, call)
    /\ UNCHANGED <<out, calls, budget, threads, dicts>>

\* the host program runs: it has raised no exception and emitted nothing yet
Running == exc = NoExc /\ out = NoOut

\* the kind of the innermost open with-block
Innermost == IF withs = <<>> THEN "none" ELSE withs[Len(withs)].kind

Call(op, args) == [op |-> op, args |-> args]

\* the last builder call made, if any
Last == IF hist = <<>> THEN Call("none", <<>>) ELSE hist[Len(hist)]

---------------------------------------------------------------------------
(* The builder calls as actions.  A signal is named by the host program     *)
(* through the object a builder returned: by its module and its name.       *)

\* the module of the current context (the host programs of this model make
\* their calls inside a module's with-block or after an exception left it)
CurModule == contexts[ChipyCurrentContext].module

\* the signals the host program holds, of the module it is building
Held == IF ChipyCurrentContext = NoCtx THEN {} ELSE DOMAIN modules[CurModule].signals

\* "with AddModule(name):" up to the first statement of its block
DoAddModule(name) ==
    /\ Running /\ calls < budget
    /\ LET s1 == ChipyModule(State, name)
           s2 == ModuleEnter(s1, name)
       IN IF Raised(s1) THEN Return(s1, Call("AddModule", <<name>>), withs)
          ELSE Return(s2, Call("AddModule", <<name>>),
                      Append(withs, Frame("module", Len(s2.ctxs))))

\* ResetDesign() by a host program that catches the ValueError it may raise
\* and goes on; the call is recorded with what it raised
DoResetDesign ==
    /\ Running /\ calls < budget
    /\ LET s == ResetDesign(State)
       IN Return([s EXCEPT !.exc = NoExc], Call("ResetDesign", <<s.exc>>), withs)

\* a builder call by a host program that catches what the call raises and
\* goes on inside its with-blocks; the call is recorded with what it raised
Try(s, op, args) ==
    Return([s EXCEPT !.exc = NoExc], Call(op, Append(args, s.exc)), withs)

TryAddReg(name, type, posedge, negedge, nodefault, async) ==
    /\ Running /\ calls < budget
    /\ Try(AddReg(State, name, type, posedge, negedge, nodefault, async),
           "AddReg", <<name, type, posedge, negedge, nodefault, async>>)

TryAddOutput(name, type, posedge, negedge, nodefault, async) ==
    /\ Running /\ calls < budget
    /\ Try(AddOutput(State, name, type, posedge, negedge, nodefault, async),
           "AddOutput", <<name, type, posedge, negedge, nodefault, async>>)

TryAddFF(n, posedge, negedge, nodefault) ==
    /\ Running /\ calls < budget
    /\ n \in Held
    /\ Try(AddFF(State, CurModule, n, posedge, negedge, nodefault),
           "AddFF", <<n, posedge, negedge, nodefault>>)

TryAddAsync(n) ==
    /\ Running /\ calls < budget
    /\ n \in Held
    /\ Try(AddAsync(State, CurModule, n), "AddAsync", <<n>>)

TryConnect(first, second) ==
    /\ Running /\ calls < budget
    /\ first \in Held /\ second \in Held /\ first # second
    /\ Try(Connect(State, CurModule, <<first, second>>), "Connect", <<first, second>>)

\* the host program catches, outside its with-blocks, the exception that
\* left them, and goes on
DoCatch ==
    /\ exc # NoExc /\ out = NoOut
    /\ withs = <<>>
    /\ exc' = NoExc
    /\ hist' = Append(hist, Call("Catch", <<exc>>))
    /\ UNCHANGED <<modules, ChipyModulesDict, contexts, ChipyCurrentContext,
                   ChipyElseContext, ChipyIdCounter, withs, out, calls, budget,
                   threads, dicts>>

DoAddInput(name, type) ==
    /\ Running /\ calls < budget
    /\ Return(AddInput(State, name, type), Call("AddInput", <<name, type>>), withs)

DoAddReg(name, type, posedge, negedge, nodefault, async) ==
    /\ Running /\ calls < budget
    /\ Return(AddReg(State, name, type, posedge, negedge, nodefault, async),
              Call("AddReg", <<name, type, posedge, negedge, nodefault, async>>), withs)

DoAddOutput(name, type, posedge, negedge, nodefault, async) ==
    /\ Running /\ calls < budget
    /\ Return(AddOutput(State, name, type, posedge, negedge, nodefault, async),
              Call("AddOutput", <<name, type, posedge, negedge, nodefault, async>>), withs)

DoAddFF(n, posedge, negedge, nodefault) ==
    /\ Running /\ calls < budget
    /\ n \in Held
    /\ Return(AddFF(State, CurModule, n, posedge, negedge, nodefault),
              Call("AddFF", <<n, posedge, negedge, nodefault>>), withs)

DoAddAsync(n) ==
    /\ Running /\ calls < budget
    /\ n \in Held
    /\ Return(AddAsync(State, CurModule, n), Call("AddAsync", <<n>>), withs)

DoBinaryOp(vlogop, a, b) ==
    /\ Running /\ calls < budget
    /\ a \in Held /\ b \in Held
    /\ Return(ChipyBinaryOp(State, vlogop, CurModule, a, CurModule, b, TRUE, FALSE),
              Call("ChipyBinaryOp", <<vlogop, a, b>>), withs)

\* "a <op> b" for operands the host program holds: the signal a of module am
\* (or, am being None, the integer a) and the same for b; __add__ .. __ror__
\* call ChipyBinaryOp with the left operand first
DoOperator(vlogop, am, a, bm, b) ==
    /\ Running /\ calls < budget
    /\ am # None \/ bm # None
    /\ am # None => (am \in DOMAIN modules /\ a \in DOMAIN modules[am].signals)
    /\ bm # None => (bm \in DOMAIN modules /\ b \in DOMAIN modules[bm].signals)
    /\ Return(ChipyBinaryOp(State, vlogop, am, a, bm, b, TRUE, vlogop \in ShiftOperators),
              Call("Operator", <<vlogop, am, a, bm, b>>), withs)

DoAssign(lhs, rhs) ==
    /\ Running /\ calls < budget
    /\ lhs \in Held /\ rhs \in Held
    /\ Return(Assign(State, CurModule, lhs, CurModule, rhs),
              Call("Assign", <<lhs, rhs>>), withs)

\* Assign(lhs, rhs) for bundles the host program built from signals it holds
DoAssignBundle(lhs, rhs) ==
    /\ Running /\ calls < budget
    /\ ChipyCurrentContext # NoCtx
    /\ Return(AssignBundle(State, CurModule, lhs, rhs),
              Call("AssignBundle", <<lhs, rhs>>), withs)

\* bundle.regs() and bundle.nonregs() for a bundle the host program built
\* from signals of module m; the call is recorded with both results
DoRegs(bundle) ==
    /\ Running /\ calls < budget
    /\ "m" \in DOMAIN modules
    /\ Return(State, Call("Regs", <<bundle, regs(State, "m", bundle),
                                   nonregs(State, "m", bundle)>>), withs)

\* Zip(bundles) for a list or a mapping of bundles the host program built
\* from signals it holds; the call is recorded with what it returned
DoZip(bundles, list_mode) ==
    /\ Running /\ calls < budget
    /\ ChipyCurrentContext # NoCtx
    /\ LET r == Zip(State, CurModule, bundles, list_mode)
       IN Return(r.state, Call("Zip", <<bundles, list_mode, r.value>>), withs)

DoConnect(first, second) ==
    /\ Running /\ calls < budget
    /\ first \in Held /\ second \in Held /\ first # second
    /\ Return(Connect(State, CurModule, <<first, second>>),
              Call("Connect", <<first, second>>), withs)

\* Connect(first, second, *rest) of the signals sigs
DoConnectAll(sigs) ==
    /\ Running /\ calls < budget
    /\ Range(sigs) \subseteq Held
    /\ Return(Connect(State, CurModule, sigs), Call("Connect", sigs), withs)

DoAddInst(name, type) ==
    /\ Running /\ calls < budget
    /\ type \in DOMAIN modules
    /\ Return(AddInst(State, name, type), Call("AddInst", <<name, type>>), withs)

\* ChipyMemory(Module(), 8, 16, posedge=.., negedge=..): a memory without a name
DoChipyMemory(posedge, negedge) ==
    /\ Running /\ calls < budget
    /\ ChipyCurrentContext # NoCtx
    /\ {posedge, negedge} \subseteq Held \cup {None}
    /\ Return(ChipyMemory(State, CurModule, 8, 16, None, posedge, negedge, FALSE),
              Call("ChipyMemory", <<posedge, negedge>>), withs)

\* n[index] for the signal n of the module
DoSignalGetItem(n, index) ==
    /\ Running /\ calls < budget
    /\ n \in Held
    /\ index.n \in Held \cup {None}
    /\ Return(SignalGetItem(State, CurModule, n, index),
              Call("SignalGetItem", <<n, index>>), withs)

\* Sig(arg, width) for a signal of the module
DoSig(arg, width) ==
    /\ Running /\ calls < budget
    /\ arg \in Held
    /\ Return(SigWidth(State, CurModule, arg, width), Call("Sig", <<arg, width>>), withs)

\* Repeat(num, sig) for a signal of the module
DoRepeat(num, sig) ==
    /\ Running /\ calls < budget
    /\ sig \in Held
    /\ Return(Repeat(State, num, CurModule, sig), Call("Repeat", <<num, sig>>), withs)

\* Concat(sigs) for signals of the module
DoConcat(sigs) ==
    /\ Running /\ calls < budget
    /\ ChipyCurrentContext # NoCtx
    /\ Range(sigs) \subseteq Held
    /\ Return(Concat(State, CurModule, sigs), Call("Concat", <<sigs>>), withs)

\* mem[index] for the memory mem and the signal index of the module
DoGetItem(mem, index) ==
    /\ Running /\ calls < budget
    /\ ChipyCurrentContext # NoCtx
    /\ \E i \in DOMAIN modules[CurModule].memories :
           modules[CurModule].memories[i].name = mem
    /\ index \in Held
    /\ Return(MemoryGetItem(State, CurModule, mem, index),
              Call("GetItem", <<mem, index>>), withs)

DoIf(cond) ==
    /\ Running /\ calls < budget
    /\ cond \in Held
    /\ LET s == IfBegin(State, CurModule, cond)
       IN Return(s, Call("If", <<cond>>), Append(withs, Frame("If", Len(s.ctxs))))

DoElseIf(cond) ==
    /\ Running /\ calls < budget
    /\ cond \in Held
    /\ LET s == ElseIfBegin(State, CurModule, cond)
       IN Return(s, Call("ElseIf", <<cond>>),
                 Append(withs, Frame("ElseIf", ChipyElseContext)))

DoElse ==
    /\ Running /\ calls < budget
    /\ Return(ElseBegin(State), Call("Else", <<>>),
              Append(withs, Frame("Else", ChipyElseContext)))

DoSwitch(expr, parallel, full) ==
    /\ Running /\ calls < budget
    /\ expr \in Held
    /\ LET s == SwitchBegin(State, CurModule, expr, parallel, full)
       IN Return(s, Call("Switch", <<expr, parallel, full>>),
                 Append(withs, Frame("Switch", Len(s.ctxs))))

\* Case(arg) for an integer arg
DoCase(arg) ==
    /\ Running /\ calls < budget
    /\ LET s == CaseBegin(State, None, SigInt(arg, -32))
       IN Return(s, Call("Case", <<arg>>), Append(withs, Frame("Case", Len(s.ctxs))))

DoDefault ==
    /\ Running /\ calls < budget
    /\ LET s == DefaultBegin(State)
       IN Return(s, Call("Default", <<>>), Append(withs, Frame("Default", Len(s.ctxs))))

\* the end of the innermost block: the part of its generator after the yield
DoEnd ==
    /\ Running
    /\ withs # <<>> /\ withs[Len(withs)].kind # "module"
    /\ LET f == withs[Len(withs)]
           s == CASE f.kind = "If" -> IfEnd(State, f.ctx)
                  [] f.kind = "ElseIf" -> ElseIfEnd(State, f.ctx)
                  [] f.kind = "Else" -> ElseEnd(State, f.ctx)
                  [] f.kind = "Switch" -> SwitchEnd(State, f.ctx)
                  [] f.kind = "Case" -> CaseEnd(State, f.ctx)
                  [] f.kind = "Default" -> DefaultEnd(State, f.ctx)
       IN Exit(s, Call("End", <<f.kind>>))

\* the end of the module's with-block
DoModuleExit ==
    /\ Running
    /\ withs # <<>> /\ withs[Len(withs)].kind = "module"
    /\ Exit(ModuleExit(State), Call("ModuleExit", <<>>))

\* module.write_verilog(f), once, whether or not the building raised
DoWriteVerilog(m) ==
    /\ out = NoOut
    /\ m \in DOMAIN modules
    /\ out' = write_verilog(modules[m])
    /\ UNCHANGED <<modules, ChipyModulesDict, contexts, ChipyCurrentContext,
                   ChipyElseContext, ChipyIdCounter, withs, exc, hist, calls, budget,
                   threads, dicts>>

---------------------------------------------------------------------------
(* Spec: the register protocol.  The host program has opened module m and  *)
(* added the inputs clk, a and b; it then declares, synchronizes, assigns  *)
(* and connects the register q and the output y, and emits the module.     *)

\* what a host program has done when it starts to vary: the with-blocks it
\* has open and the state its calls have made
Started(s, frames, n) ==
    /\ modules = s.mods
    /\ ChipyModulesDict = s.dict
    /\ contexts = s.ctxs
    /\ ChipyCurrentContext = s.cur
    /\ ChipyElseContext = s.els
    /\ ChipyIdCounter = s.idc
    /\ withs = frames
    /\ exc = s.exc
    /\ hist = <<>>
    /\ out = NoOut
    /\ calls = 0
    /\ budget = n
    /\ threads = <<>>
    /\ dicts = <<>>

\* with AddModule("m"): AddInput("clk"); AddInput("a", 8); AddInput("b", 8)
PreludeInputs ==
    AddInput(AddInput(AddInput(ModuleEnter(ChipyModule(S0, "m"), "m"),
                               "clk", 1), "a", 8), "b", 8)

Init == Started(PreludeInputs, <<Frame("module", 1)>>, MaxCalls)

\* the clock arguments: none, or the input clk
Clocks == {None, "clk"}

Next ==
    \/ \E pe \in Clocks, ne \in Clocks, nd \in BOOLEAN, as \in BOOLEAN :
           DoAddReg("q", 1, pe, ne, nd, as)
    \/ \E pe \in Clocks, ne \in Clocks, as \in BOOLEAN :
           DoAddOutput("y", 8, pe, ne, FALSE, as)
    \/ \E n \in {"a", "q", "y"}, pe \in Clocks, ne \in Clocks :
           DoAddFF(n, pe, ne, FALSE)
    \/ \E n \in {"q", "y"} : DoAddAsync(n)
    \/ DoBinaryOp("+", "a", "b")
    \/ \E lhs \in {"a", "q", "y"}, rhs \in {"a", "__1"} : DoAssign(lhs, rhs)
    \/ \E pair \in {<<"a", "q">>, <<"a", "y">>, <<"q", "y">>} : DoConnect(pair[1], pair[2])
    \/ DoConnectAll(<<"a", "q", "y">>)
    \/ DoModuleExit
    \/ DoWriteVerilog("m")

Spec == Init /\ [][Next]_vars

---------------------------------------------------------------------------
(* Claims checked under Spec. *)

\* the module the host programs of Spec build
M == modules["m"]

\* the registers of a module that lack an assignment or a synchronization element
Incomplete(sigs) ==
    {n \in DOMAIN sigs : sigs[n].register /\ ~(sigs[n].gotassign /\ sigs[n].regaction)}

\* C1: write_verilog completes only if every register signal of the module
\* has gotassign and regaction; if a register lacks one of them, write_verilog
\* raises the error of such a register instead of completing.
C1_EmitNeedsCompleteRegisters ==
    out # NoOut =>
        LET sigs == modules[out.module].signals IN
        /\ out.status = NoExc => Incomplete(sigs) = {}
        /\ Incomplete(sigs) # {} =>
               out.status \in
                   {"ChipyError: Register without " \o what \o ": " \o out.module \o "." \o n :
                       what \in {"assignment", "synchronization element"},
                       n \in Incomplete(sigs)}

\* write_verilog raised for a register that was assigned but never synchronized
C1_Witness ==
    /\ out # NoOut
    /\ out.status # NoExc
    /\ \E n \in DOMAIN M.signals :
           M.signals[n].register /\ M.signals[n].gotassign /\ ~M.signals[n].regaction

\* the lines of the always @* block g that are the init line of register n
InitLinesOf(n) ==
    {ChipySnippet.indent_str \o FFDefault(M.signals[n], nd) : nd \in BOOLEAN}

\* the lines a top-level Assign to register n emits
AssignLinesOf(n) ==
    {ChipySnippet.indent_str \o M.signals[n].vlog_lvalue \o " = " \o rhs \o ";" :
        rhs \in {"a", "__1"}}

\* C3: inside each emitted always @* group the snippets appear in the order
\* of their index in init_snippets ++ code_snippets and the lines of a snippet
\* in the order they were added; so the default init line of a register
\* precedes every assignment line to it in the block, whatever the order of
\* the builder calls.
C3_InitLineFirst ==
    (out # NoOut /\ out.status = NoExc) =>
        LET db == M.init_snippets \o M.code_snippets IN
        /\ \A g \in DOMAIN out.groups :
              /\ \A i, j \in DOMAIN out.groups[g] :
                     i < j => out.groups[g][i] < out.groups[g][j]
              /\ out.always[g] = GroupLines(db, out.groups[g])
        /\ \A k \in DOMAIN db : \E g \in DOMAIN out.groups : k \in Range(out.groups[g])
        /\ \A n \in DOMAIN M.signals : M.signals[n].register =>
              \A g \in DOMAIN out.always : \A j \in DOMAIN out.always[g] :
                  out.always[g][j] \in AssignLinesOf(n) =>
                      \E i \in 1..(j - 1) : out.always[g][i] \in InitLinesOf(n)

\* an emitted block in which AddFF was called after the assignment
C3_Witness ==
    /\ out # NoOut /\ out.status = NoExc
    /\ \E i, j \in DOMAIN hist :
           /\ i < j
           /\ hist[i].op = "Assign" /\ hist[j].op = "AddFF"
           /\ hist[i].args[1] = hist[j].args[1]
    /\ \E g \in DOMAIN out.always : Len(out.always[g]) >= 2

\* the step is a call AddReg(name, w, ...)
IsAddReg(h, h2) == Len(h2) = Len(h) + 1 /\ h2[Len(h2)].op = "AddReg"

\* C8: inside a module's with-block, AddReg(name, w, posedge=clk) of a new
\* name without negedge and async creates a
\* materialized register with lvalue "__next__<name>", appends exactly one
\* init snippet driving <name> whose line is the hold value (or <w>'bx with
\* nodefault), appends exactly the line "always @(posedge clk) <name> <=
\* __next__<name>;" to regactions, and sets regaction and vlog_reg.
C8_AddRegPosedge ==
    [][ (/\ IsAddReg(hist, hist')
         /\ Last'.args[3] # None /\ Last'.args[4] = None /\ ~Last'.args[6]
         /\ ChipyCurrentContext # NoCtx
         /\ Last'.args[1] \notin DOMAIN M.signals)
        =>
        LET name == Last'.args[1]
            w == Last'.args[2]
            clk == Last'.args[3]
            nodefault == Last'.args[5]
            signal == M'.signals[name]
        IN
        /\ exc' = NoExc
        /\ signal.materialize /\ signal.register
        /\ signal.vlog_lvalue = "__next__" \o name
        /\ signal.width = w
        /\ M'.init_snippets = Append(M.init_snippets,
              [indent_str |-> "    ",
               text_lines |-> << IF nodefault
                                 THEN "    __next__" \o name \o " = " \o ToString(w) \o "'bx;"
                                 ELSE "    __next__" \o name \o " = " \o name \o ";" >>,
               lvalue_signals |-> {name}])
        /\ M'.regactions = Append(M.regactions,
              "  always @(posedge " \o clk \o ") " \o name \o " <= __next__" \o name \o ";")
        /\ signal.regaction /\ signal.vlog_reg
        /\ M'.code_snippets = M.code_snippets
      ]_vars

\* AddReg("q", 1, posedge=clk, nodefault=True) has returned
C8_Witness ==
    /\ Last.op = "AddReg" /\ exc = NoExc
    /\ Last.args[3] = "clk" /\ Last.args[4] = None /\ Last.args[5] /\ ~Last.args[6]
    /\ M.signals["q"].regaction

\* C9: inside a module's with-block, AddReg(name, w, negedge=clk) of a new
\* name without posedge succeeds and yields a
\* falling-edge flop: one init snippet, exactly one regaction line "always
\* @(negedge clk) <name> <= __next__<name>;" naming the negedge clock, and
\* regaction and vlog_reg set.
C9_AddRegNegedge ==
    [][ (/\ IsAddReg(hist, hist')
         /\ Last'.args[3] = None /\ Last'.args[4] # None /\ ~Last'.args[6]
         /\ ChipyCurrentContext # NoCtx
         /\ Last'.args[1] \notin DOMAIN M.signals)
        =>
        LET name == Last'.args[1]
            clk == Last'.args[4]
            signal == M'.signals[name]
        IN
        /\ exc' = NoExc
        /\ Len(M'.init_snippets) = Len(M.init_snippets) + 1
        /\ M'.regactions = Append(M.regactions,
              "  always @(negedge " \o clk \o ") " \o name \o " <= __next__" \o name \o ";")
        /\ signal.regaction /\ signal.vlog_reg
      ]_vars

\* AddReg("q", 1, negedge=clk) was called inside the with-block of m
C9_Witness ==
    /\ Last = Call("AddReg", <<"q", 1, None, "clk", FALSE, FALSE>>)
    /\ Len(hist) = 1
    /\ exc = AttributeError
    /\ M.regactions = <<>> /\ ~M.signals["q"].regaction

\* the host program declared the plain output y, built a + b and assigned
\* it to y, in this order or with the sum built first
AdderCalls ==
    LET addout == Call("AddOutput", <<"y", 8, None, None, FALSE, FALSE>>)
        sum == Call("ChipyBinaryOp", <<"+", "a", "b">>)
        assign == Call("Assign", <<"y", "__1">>)
    IN {<<addout, sum, assign>>, <<sum, addout, assign>>}

\* the text write_verilog prints for the adder
AdderText ==
    /\ out.status = NoExc
    /\ "  wire [7:0] __1;" \in Range(out.wirelist)
    /\ "  assign __1 = a + b;" \in Range(out.assignlist)
    /\ \E g \in DOMAIN out.always : "    __next__y = __1;" \in Range(out.always[g])

\* C10 as claimed: with inputs a:8, b:8 and the plain output y:8, after
\* Assign(y, a + b) emission succeeds and produces the intermediate wire, its
\* assign, and the assignment to y in a combinational block.
C10_PlainOutputEmits ==
    (hist \in AdderCalls /\ out # NoOut) => AdderText

\* C10 as amended: the plain output is a register without a synchronization
\* element.  Assign(y, a + b) succeeds, materializes the intermediate wire of
\* width 8 with rvalue "a + b" and records "__next__y = <tmp>;" in a code
\* snippet driving y, but emission raises "Register without synchronization
\* element"; once AddAsync(y) has attached one, emission succeeds with the
\* wire, its assign and the assignment in a combinational block.
C10_PlainOutputNeedsSync ==
    /\ hist \in AdderCalls =>
          /\ exc = NoExc
          /\ M.signals["__1"].materialize /\ M.signals["__1"].width = 8
          /\ M.signals["__1"].vlog_rvalue = "a + b"
          /\ M.code_snippets = << [indent_str |-> "    ",
                                   text_lines |-> <<"    __next__y = __1;">>,
                                   lvalue_signals |-> {"y"}] >>
          /\ out # NoOut =>
                out.status = "ChipyError: Register without synchronization element: m.y"
    /\ \A h \in AdderCalls :
          (hist = Append(h, Call("AddAsync", <<"y">>)) /\ out # NoOut) => AdderText

\* the adder with AddAsync(y) has been emitted
C10_Witness ==
    /\ \E h \in AdderCalls : hist = Append(h, Call("AddAsync", <<"y">>))
    /\ out # NoOut /\ out.status = NoExc

---------------------------------------------------------------------------
(* SpecBlocks: the procedural blocks.  The host program has opened module m, *)
(* added the inputs clk, sel, a and b and the register r on posedge clk; it  *)
(* then opens and closes blocks (Case and Default directly inside a Switch) *)
(* and assigns r, and emits the module.                                      *)

\* builder calls a host program of SpecBlocks makes after its prelude
MaxBlockCalls == 4

\* with AddModule("m"): the inputs, then AddReg("r", 8, posedge=clk)
PreludeBlocks ==
    AddReg(AddInput(PreludeInputs, "sel", 1), "r", 8, "clk", None, FALSE, FALSE)

InitBlocks == Started(PreludeBlocks, <<Frame("module", 1)>>, MaxBlockCalls)

NextBlocks ==
    \/ DoIf("sel")
    \/ DoElseIf("sel")
    \/ DoElse
    \/ \E parallel \in BOOLEAN, full \in BOOLEAN : DoSwitch("a", parallel, full)
    \/ Innermost = "Switch" /\ DoCase(1)
    \/ Innermost = "Switch" /\ DoDefault
    \/ DoEnd
    \/ \E rhs \in {"a", "b"} : DoAssign("r", rhs)
    \/ DoModuleExit
    \/ DoWriteVerilog("m")

SpecBlocks == InitBlocks /\ [][NextBlocks]_vars

---------------------------------------------------------------------------
(* Claims checked under SpecBlocks. *)

\* the text lines and the indentation of the snippet the current context
\* writes to (no lines and the indentation of a new snippet if it has none yet)
CurLines ==
    IF contexts[ChipyCurrentContext].snippet = 0 THEN <<>>
    ELSE SnippetOf(State, ChipyCurrentContext).text_lines

CurIndent ==
    IF contexts[ChipyCurrentContext].snippet = 0 THEN ChipySnippet.indent_str
    ELSE SnippetOf(State, ChipyCurrentContext).indent_str

\* a builder call was made in this step
Called(op) == Len(hist') = Len(hist) + 1 /\ Last'.op = op

\* with If(sel): r.next = x; with Else(): r.next = y
IfElseCalls(x, y) ==
    <<Call("If", <<"sel">>), Call("Assign", <<"r", x>>), Call("End", <<"If">>),
      Call("Else", <<>>), Call("Assign", <<"r", y>>), Call("End", <<"Else">>)>>

IfElseText(x, y) ==
    <<"    if (sel) begin", "      __next__r = " \o x \o ";", "    end",
      "    else begin", "      __next__r = " \o y \o ";", "    end">>

\* C4: while the host program runs If(sel) with an assignment of r and then
\* Else() with an assignment of r, the lines "if (sel) begin", the first
\* assignment, "end", "else begin", the second assignment, "end" are appended
\* one after the other to the one code snippet of the module, which records r
\* as driven from the first assignment on; the module emitted after them has
\* one always block: the default line of r followed by these six lines.
C4_IfElseOneSnippet ==
    \A x \in {"a", "b"}, y \in {"a", "b"} :
        /\ \A k \in 1..6 :
               hist = SubSeq(IfElseCalls(x, y), 1, k) =>
                   /\ exc = NoExc
                   /\ Len(M.code_snippets) = 1
                   /\ M.code_snippets[1].text_lines = SubSeq(IfElseText(x, y), 1, k)
                   /\ k >= 2 => M.code_snippets[1].lvalue_signals = {"r"}
        /\ (/\ hist \in {IfElseCalls(x, y),
                         Append(IfElseCalls(x, y), Call("ModuleExit", <<>>))}
            /\ out # NoOut)
           => /\ out.status = NoExc
              /\ out.always = << <<"    __next__r = r;">> \o IfElseText(x, y) >>

C4_Witness ==
    /\ hist = Append(IfElseCalls("a", "b"), Call("ModuleExit", <<>>))
    /\ out # NoOut /\ out.status = NoExc
    /\ Len(out.always) = 1 /\ Len(out.always[1]) = 7

\* C5: an ElseIf(cond) called while pending-else is set raises nothing, enters
\* the pending-else context and appends "else if (cond) begin" to the snippet
\* of that context.
C5_ElseIfAfterIf ==
    [][(Called("ElseIf") /\ ChipyElseContext # NoCtx) =>
          /\ exc' = NoExc
          /\ ChipyCurrentContext' = ChipyElseContext
          /\ CurLines' = Append(SnippetOf(State, ChipyElseContext).text_lines,
                                SnippetOf(State, ChipyElseContext).indent_str
                                    \o "else if (" \o Last'.args[1] \o ") begin")]_vars

\* an ElseIf called directly after an If block has closed
C5_Witness ==
    /\ Len(hist) >= 2
    /\ hist[Len(hist) - 1] = Call("End", <<"If">>)
    /\ Last = Call("ElseIf", <<"sel">>)
    /\ exc = AttributeError

\* C6: an Else() called while pending-else is unset, or directly after the
\* Else block of the same If has closed, raises ChipyError.
C6_ElseAtMostOnce ==
    [][(Called("Else") /\ (ChipyElseContext = NoCtx \/ Last = Call("End", <<"Else">>))) =>
          exc' = "ChipyError: Cannot find matching If/IfElse for Else"]_vars

\* a second Else() called directly after the Else block of an If has closed
C6_Witness ==
    /\ Len(hist) >= 2
    /\ hist[Len(hist) - 1] = Call("End", <<"Else">>)
    /\ Last = Call("Else", <<>>)
    /\ exc = NoExc
    /\ Len(M.code_snippets) = 1
    /\ Len(SelectSeq(M.code_snippets[1].text_lines,
                     LAMBDA line : line = "    else begin")) = 2

\* the lines Switch(expr, parallel, full) is to append
SwitchLines(expr, parallel, full) ==
    (IF parallel THEN <<"(* parallel_case *)">> ELSE <<>>)
        \o (IF full THEN <<"(* full_case *)">> ELSE <<>>)
        \o <<"case (" \o expr \o ")">>

\* C7: a Switch(expr, parallel, full) called inside a block raises nothing and
\* appends to the current snippet the pragma lines of its options, directly
\* followed by "case (expr)"; the end of its block appends "endcase".
C7_SwitchPragmas ==
    [][/\ (Called("Switch") /\ ChipyCurrentContext # NoCtx) =>
             /\ exc' = NoExc
             /\ CurLines' = CurLines \o
                    [i \in 1..Len(SwitchLines(Last'.args[1], Last'.args[2], Last'.args[3]))
                        |-> CurIndent \o
                            SwitchLines(Last'.args[1], Last'.args[2], Last'.args[3])[i]]
       /\ (Len(hist') = Len(hist) + 1 /\ Last' = Call("End", <<"Switch">>)) =>
             /\ exc' = NoExc
             /\ Len(modules'["m"].code_snippets) > 0
             /\ \E k \in DOMAIN modules'["m"].code_snippets :
                    LET lines == modules'["m"].code_snippets[k].text_lines
                    IN lines # <<>> /\ lines[Len(lines)] =
                           SubSeq(CurIndent, 3, Len(CurIndent)) \o "endcase"
      ]_vars

\* Switch(a, parallel=True) was called inside the with-block of m
C7_Witness ==
    /\ hist = <<Call("Switch", <<"a", TRUE, FALSE>>)>>
    /\ exc = AttributeError
    /\ M.code_snippets = <<>>

---------------------------------------------------------------------------
(* SpecEmit: the snippets of an emitted module.  The host program has opened *)
(* module m, added the inputs clk, a, b and sel and the registers q, r and   *)
(* y, each one either with a flip-flop (which gives it an init snippet) or   *)
(* plain and then connected to a (which leaves it an assignable wire without *)
(* init snippet); it then opens If blocks, every outermost one a snippet of  *)
(* its own, assigns the three signals in them, and emits the module.         *)

\* builder calls a host program of SpecEmit makes after its prelude
MaxEmitCalls == 6

EmitNames == <<"q", "r", "y">>

\* the registers of the prelude; those of connected are connected to a
RECURSIVE PreludeRegs(_, _, _)
PreludeRegs(s, names, connected) ==
    IF names = <<>> THEN s
    ELSE LET n == Head(names)
             s1 == IF n \in connected
                   THEN Connect(AddReg(s, n, 8, None, None, FALSE, FALSE), "m", <<"a", n>>)
                   ELSE AddReg(s, n, 8, "clk", None, FALSE, FALSE)
         IN PreludeRegs(s1, Tail(names), connected)

PreludeEmit(connected) ==
    PreludeRegs(AddInput(PreludeInputs, "sel", 1), EmitNames, connected)

InitEmit ==
    \E connected \in SUBSET Range(EmitNames) :
        Started(PreludeEmit(connected), <<Frame("module", 1)>>, MaxEmitCalls)

\* the blocks are not nested, and every assignment is made in one
NextEmit ==
    \/ Len(withs) = 1 /\ DoIf("sel")
    \/ \E lhs \in Range(EmitNames) : Len(withs) = 2 /\ DoAssign(lhs, "a")
    \/ DoEnd
    \/ DoWriteVerilog("m")

SpecEmit == InitEmit /\ [][NextEmit]_vars

---------------------------------------------------------------------------
(* Claims checked under SpecEmit. *)

\* the snippets reached from those of S by chains of snippets that share a
\* driven name
RECURSIVE Linked(_, _)
Linked(db, S) ==
    LET T == S \cup {j \in DOMAIN db : \E i \in S :
                        db[i].lvalue_signals \cap db[j].lvalue_signals # {}}
    IN IF T = S THEN S ELSE Linked(db, T)

\* the connected components of "share a driven name"
Components(db) == {Linked(db, {i}) : i \in DOMAIN db}

\* the groups as sets of snippet indices
GroupSets(groups) == {Range(groups[g]) : g \in DOMAIN groups}

\* the names the snippets of a set drive
Driven(db, S) == UNION {db[i].lvalue_signals : i \in S}

\* snippet_db with the snippets i and j exchanged, and snippet_db reversed
Swap(db, i, j) == [db EXCEPT ![i] = db[j], ![j] = db[i]]
Reverse(db) == [i \in DOMAIN db |-> db[Len(db) + 1 - i]]

\* C2: the always @* groups of an emitted module are a partition of the
\* snippets of init_snippets ++ code_snippets, namely the connected
\* components of "share a driven name"; two different groups drive disjoint
\* sets of names; and the partition is the same when two snippets are
\* exchanged or the list is reversed before the grouping.
C2_GroupsAreComponents ==
    (out # NoOut /\ out.status = NoExc) =>
        LET db == SnippetDb(modules[out.module])
            sets == GroupSets(out.groups)
        IN /\ sets = Components(db)
           /\ \A g \in DOMAIN out.groups :
                  \A i, j \in DOMAIN out.groups[g] :
                      i # j => out.groups[g][i] # out.groups[g][j]
           /\ \A g, h \in DOMAIN out.groups :
                  g # h => /\ Range(out.groups[g]) \cap Range(out.groups[h]) = {}
                           /\ Driven(db, Range(out.groups[g]))
                                  \cap Driven(db, Range(out.groups[h])) = {}
           /\ \A i, j \in DOMAIN db :
                  GroupSets(snippet_groups(Swap(db, i, j))) =
                      {{(IF k = i THEN j ELSE IF k = j THEN i ELSE k) : k \in S} : S \in sets}
           /\ GroupSets(snippet_groups(Reverse(db))) =
                  {{Len(db) + 1 - k : k \in S} : S \in sets}

\* an emitted module with two groups or more, one of them of three snippets or
\* more with two that share no driven name and are linked by a chain only
C2_Witness ==
    /\ out # NoOut /\ out.status = NoExc
    /\ Len(out.groups) >= 2
    /\ LET db == SnippetDb(modules[out.module])
       IN \E g \in DOMAIN out.groups :
              /\ Len(out.groups[g]) >= 3
              /\ \E i, j \in Range(out.groups[g]) :
                     /\ db[i].lvalue_signals # {} /\ db[j].lvalue_signals # {}
                     /\ db[i].lvalue_signals \cap db[j].lvalue_signals = {}

---------------------------------------------------------------------------
(* Claims checked under Spec: Connect. *)

\* a signal that can be the master of a Connect
CheckregFlags(sig) == ~sig.register \/ sig.regaction \/ sig.gotassign

\* C11: a Connect of distinct signals made inside the with-block of m
\* succeeds if and only if exactly one of them is not a register or has
\* regaction or gotassign.  Otherwise it raises and changes no signal and no
\* regactions line.  On success every other signal gets, in the order of the
\* arguments, one line "assign <slave> = <master>;" appended to regactions,
\* its portalias set to the master and its register, regaction, gotassign and
\* vlog_reg cleared; the master and every other signal are unchanged.
C11_ConnectOneMaster ==
    [][(Called("Connect") /\ ChipyCurrentContext # NoCtx) =>
          LET sigs == Last'.args
              masters == {n \in Range(sigs) : CheckregFlags(M.signals[n])}
              slaves == SelectSeq(sigs, LAMBDA n : n \notin masters)
          IN IF Cardinality(masters) = 1
             THEN LET master == CHOOSE n \in masters : TRUE
                  IN /\ exc' = NoExc
                     /\ M'.regactions = M.regactions \o
                            [i \in 1..Len(slaves) |->
                                "  assign " \o slaves[i] \o " = " \o master \o ";"]
                     /\ M'.signals =
                            [n \in DOMAIN M.signals |->
                                IF n \in Range(slaves)
                                THEN [M.signals[n] EXCEPT
                                         !.portalias = master, !.register = FALSE,
                                         !.regaction = FALSE, !.gotassign = FALSE,
                                         !.vlog_reg = FALSE]
                                ELSE M.signals[n]]
             ELSE /\ exc' # NoExc
                  /\ M'.signals = M.signals
                  /\ M'.regactions = M.regactions]_vars

\* Connect(a, q, y) has made the fresh registers q and y slaves of a
C11_Witness ==
    /\ Last = Call("Connect", <<"a", "q", "y">>)
    /\ exc = NoExc
    /\ M.signals["q"].portalias = "a" /\ M.signals["y"].portalias = "a"
    /\ ~M.signals["q"].register /\ ~M.signals["y"].register
    /\ Len(M.regactions) = 2

\* C12: inside the with-block of m, a Connect of the signals of an earlier
\* successful Connect raises the multiple-masters error, appends no assign
\* line and changes no signal (so no portalias).
C12_ConnectAgainRaises ==
    [][(/\ Called("Connect") /\ ChipyCurrentContext # NoCtx
        /\ \E i \in DOMAIN hist :
               hist[i].op = "Connect" /\ Range(hist[i].args) = Range(Last'.args))
       => /\ exc' = "ChipyError: Multiple possible masters in Connect statement"
          /\ M'.regactions = M.regactions
          /\ M'.signals = M.signals]_vars

\* a Connect was repeated directly after it had succeeded
C12_Witness ==
    /\ Len(hist) >= 2
    /\ Last.op = "Connect" /\ hist[Len(hist) - 1] = Last
    /\ exc = "ChipyError: Multiple possible masters in Connect statement"
    /\ \E n \in Range(Last.args) : M.signals[n].portalias # None

---------------------------------------------------------------------------
(* SpecInst: instances.  The host program has built the module c with the    *)
(* input p and the output o and left its with-block, has opened module m and *)
(* added the input x; it then instantiates c under the names inst and u2,    *)
(* connects and assigns the local signals of the ports, and emits m.         *)

\* builder calls a host program of SpecInst makes after its prelude
MaxInstCalls == 3

PreludeInst ==
    LET c == ModuleExit(
                 AddOutput(AddInput(ModuleEnter(ChipyModule(S0, "c"), "c"), "p", 1),
                           "o", 1, None, None, FALSE, FALSE))
    IN AddInput(ModuleEnter(ChipyModule(c, "m"), "m"), "x", 1)

InitInst == Started(PreludeInst, <<Frame("module", Len(PreludeInst.ctxs))>>, MaxInstCalls)

NextInst ==
    \/ \E name \in {"inst", "u2"} : DoAddInst(name, "c")
    \/ \E pair \in {<<"x", "inst__p">>, <<"inst__p", "x">>, <<"x", "u2__p">>,
                    <<"inst__o", "inst__p">>, <<"inst__o", "x">>} :
           DoConnect(pair[1], pair[2])
    \/ DoAssign("inst__p", "x")
    \/ DoModuleExit
    \/ DoWriteVerilog("m")

SpecInst == InitInst /\ [][NextInst]_vars

---------------------------------------------------------------------------
(* Claims checked under SpecInst. *)

\* the call number j of the host program has returned without an exception
Succeeded(j) == j \in DOMAIN hist /\ (j < Len(hist) \/ exc = NoExc)

\* the regactions lines that assign the signal n
AssignLinesTo(n) ==
    LET pre == "  assign " \o n \o " = "
    IN SelectSeq(M.regactions,
                 LAMBDA line : Len(line) >= Len(pre) /\ SubSeq(line, 1, Len(pre)) = pre)

\* C13: after AddInst("inst", c), where c has the input port p, module m has
\* the local signal inst__p with inport and outport false; after a successful
\* Connect of the input x and inst__p that signal has portalias "x", the
\* regactions of m hold exactly one assign line for it, and the emitted
\* instance connects its port p to x.
C13_InstPortAlias ==
    /\ (\E i \in DOMAIN hist : Succeeded(i) /\ hist[i] = Call("AddInst", <<"inst", "c">>))
       => /\ "inst__p" \in DOMAIN M.signals
          /\ ~M.signals["inst__p"].inport /\ ~M.signals["inst__p"].outport
          /\ \E k \in DOMAIN M.instances :
                 /\ M.instances[k].name = "inst" /\ M.instances[k].type = "c"
                 /\ \E b \in DOMAIN M.instances[k].bundle :
                        M.instances[k].bundle[b] = [member |-> "p", signal |-> "inst__p"]
    /\ (\E j \in DOMAIN hist :
            /\ Succeeded(j)
            /\ hist[j].op = "Connect" /\ Range(hist[j].args) = {"x", "inst__p"})
       => /\ M.signals["inst__p"].portalias = "x"
          /\ AssignLinesTo("inst__p") = <<"  assign inst__p = x;">>
          /\ (out # NoOut /\ out.status = NoExc) =>
                 \E k \in DOMAIN out.instance_lines :
                     /\ k + 3 <= Len(out.instance_lines)
                     /\ SubSeq(out.instance_lines, k, k + 3) =
                            <<"  c inst (", "    .o(inst__o),", "    .p(x)", "  );">>

\* m was emitted after AddInst("inst", c) and Connect(x, inst.p_)
C13_Witness ==
    /\ hist = <<Call("AddInst", <<"inst", "c">>), Call("Connect", <<"x", "inst__p">>)>>
    /\ out # NoOut /\ out.status = NoExc
    /\ Len(out.instance_lines) = 4

---------------------------------------------------------------------------
(* SpecMem: memory writes.  The host program has opened module m and added   *)
(* the inputs clk, we, addr and data and the memory mem, clocked on either   *)
(* edge of clk; it then takes elements mem[addr], assigns data to them at    *)
(* the top level or inside If(we) blocks, and emits the module.              *)

\* builder calls a host program of SpecMem makes after its prelude
MaxMemCalls == 5

PreludeMem(posedge, negedge) ==
    AddMemory(
        AddInput(AddInput(AddInput(AddInput(ModuleEnter(ChipyModule(S0, "m"), "m"),
                                            "clk", 1), "we", 1), "addr", 4), "data", 8),
        "mem", 8, 16, posedge, negedge)

InitMem ==
    \E edge \in {<<"clk", None>>, <<None, "clk">>} :
        Started(PreludeMem(edge[1], edge[2]), <<Frame("module", 1)>>, MaxMemCalls)

NextMem ==
    \/ DoGetItem("mem", "addr")
    \/ \E lhs \in {"__1", "__3"} : DoAssign(lhs, "data")
    \/ DoIf("we")
    \/ DoEnd
    \/ DoModuleExit
    \/ DoWriteVerilog("m")

SpecMem == InitMem /\ [][NextMem]_vars

---------------------------------------------------------------------------
(* Claims checked under SpecMem. *)

\* the write-enable signals of m: the signals an init snippet sets to 1'b0
WenSignals ==
    {n \in DOMAIN M.signals :
        \E i \in DOMAIN M.init_snippets :
            M.init_snippets[i].text_lines = <<"    " \o n \o " = 1'b0;">>}

\* line is text after some indentation
IsIndented(line, text) ==
    /\ Len(line) >= Len(text)
    /\ SubSeq(line, Len(line) - Len(text) + 1, Len(line)) = text
    /\ \A k \in 1..(Len(line) - Len(text)) : SubSeq(line, k, k) = " "

\* what C14 says of an emitted module
MemEmitted ==
    (out # NoOut /\ out.status = NoExc) =>
        /\ \A wen \in WenSignals :
               \E g \in DOMAIN out.always :
                   /\ \E i, j \in DOMAIN out.always[g] :
                          /\ i < j
                          /\ out.always[g][i] = "    " \o wen \o " = 1'b0;"
                          /\ IsIndented(out.always[g][j], wen \o " = 1'b1;")
                   /\ \A h \in DOMAIN out.always : \A j \in DOMAIN out.always[h] :
                          (h # g) => \A k \in 1..(Len(out.always[h][j]) - Len(wen) + 1) :
                              SubSeq(out.always[h][j], k, k + Len(wen) - 1) # wen
        /\ Len(out.memory_blocks) = Len(M.memories)
        /\ \A i \in DOMAIN M.memories :
               LET edge == IF M.memories[i].posedge # None THEN "posedge" ELSE "negedge"
                   writes == M.memories[i].regactions
               IN out.memory_blocks[i] =
                      <<"  always @(" \o edge \o " clk) begin">>
                      \o [k \in 1..Len(writes) |-> "    " \o writes[k]]
                      \o <<"  end">>

\* C14: an Assign to a memory element, made inside the with-block of m,
\* creates one fresh signal wen in m, appends the init snippet "wen = 1'b0;"
\* driving wen, appends "wen = 1'b1;" to the snippet of the context open at
\* the call (a new snippet at the top level) and records wen as driven by
\* it, and appends "if (wen) mem[idx] <= rhs;" to the regactions of the
\* memory.  In an emitted module the default and the set of every wen are in
\* one always block, the default first, and every memory has one clocked
\* block with its guarded writes in the order of the assignments.
C14_MemoryWrite ==
    [][/\ (/\ Called("Assign") /\ ChipyCurrentContext # NoCtx
           /\ Last'.args[1] \in DOMAIN M.signals
           /\ M.signals[Last'.args[1]].memory # None)
          => LET wen == "__" \o ToString(ChipyIdCounter + 1)
                 k == contexts[ChipyCurrentContext].snippet
                 set == [indent_str |-> CurIndent,
                         text_lines |-> Append(CurLines, CurIndent \o wen \o " = 1'b1;"),
                         lvalue_signals |->
                             (IF k = 0 THEN {} ELSE M.code_snippets[k].lvalue_signals)
                                 \cup {wen}]
             IN /\ exc' = NoExc
                /\ DOMAIN M'.signals = DOMAIN M.signals \cup {wen}
                /\ wen \notin DOMAIN M.signals
                /\ M'.init_snippets =
                       Append(M.init_snippets,
                              [indent_str |-> "    ",
                               text_lines |-> <<"    " \o wen \o " = 1'b0;">>,
                               lvalue_signals |-> {wen}])
                /\ M'.code_snippets =
                       IF k = 0 THEN Append(M.code_snippets, set)
                       ELSE [M.code_snippets EXCEPT ![k] = set]
                /\ M'.memories =
                       [M.memories EXCEPT ![1].regactions =
                           Append(@, "if (" \o wen \o ") mem[addr] <= " \o Last'.args[2] \o ";")]
       /\ MemEmitted']_vars

\* a module with one write at the top level and one inside If(we), emitted
C14_Witness ==
    /\ out # NoOut /\ out.status = NoExc
    /\ Len(M.memories[1].regactions) = 2
    /\ Len(out.memory_blocks[1]) = 4
    /\ \E i \in DOMAIN hist : hist[i].op = "If"
    /\ \E g \in DOMAIN out.always : Len(out.always[g]) = 2
    /\ \E g \in DOMAIN out.always : Len(out.always[g]) = 4

---------------------------------------------------------------------------
(* SpecReset: ResetDesign.  The host program starts with tls as created; it  *)
(* opens modules m and n, adds the input a, builds a + a, opens and closes   *)
(* If blocks, makes memories without a name, leaves the modules'             *)
(* with-blocks, calls ResetDesign anywhere and emits module m.               *)

\* builder calls a host program of SpecReset makes
MaxResetCalls == 6

InitReset == Started(S0, <<>>, MaxResetCalls)

NextReset ==
    \/ \E name \in {"m", "n"} : DoAddModule(name)
    \/ DoAddInput("a", 1)
    \/ DoBinaryOp("+", "a", "a")
    \/ DoIf("a")
    \/ DoEnd
    \/ DoModuleExit
    \/ DoResetDesign
    \/ \E posedge \in {None, "a"} : DoChipyMemory(posedge, None)
    \/ DoWriteVerilog("m")

SpecReset == InitReset /\ [][NextReset]_vars

---------------------------------------------------------------------------
(* Claims checked under SpecReset. *)

\* C15: ResetDesign called while a context is open raises an error and leaves
\* the module registry, the contexts, the current context, the pending-else
\* slot and the auto-name counter unchanged; called when no context is open
\* it raises nothing and leaves an empty registry, no current context, no
\* pending-else context and the counter at 0.
C15_ResetDesign ==
    [][Called("ResetDesign") =>
          IF ChipyCurrentContext # NoCtx
          THEN /\ Last'.args[1] # NoExc
               /\ UNCHANGED <<ChipyModulesDict, contexts, ChipyCurrentContext,
                              ChipyElseContext, ChipyIdCounter>>
          ELSE /\ Last'.args[1] = NoExc
               /\ ChipyModulesDict' = <<>>
               /\ ChipyCurrentContext' = NoCtx
               /\ ChipyElseContext' = NoCtx
               /\ ChipyIdCounter' = 0]_vars

\* ResetDesign raised inside an If block of a module; called again after the
\* with-blocks were left, with a module registered, an If pending its Else
\* and an auto name given, it has cleared the three
C15_Witness ==
    /\ Last = Call("ResetDesign", <<NoExc>>)
    /\ ChipyModulesDict = <<>> /\ ChipyElseContext = NoCtx /\ ChipyIdCounter = 0
    /\ ChipyCurrentContext = NoCtx
    /\ \E i \in DOMAIN hist :
           /\ hist[i].op = "ResetDesign" /\ hist[i].args[1] # NoExc
           /\ \E j \in 1..(i - 1) : hist[j].op = "If"
           /\ \E j \in 1..(i - 1) : hist[j].op = "ChipyBinaryOp"

\* the entities of the modules ms that have a name ChipyAutoName gave: the
\* host programs of SpecReset give the name a only
AutoNamed(mods, ms) ==
    UNION {{<<m, "signal", n>> : n \in DOMAIN mods[m].signals \ {"a"}}
           \cup {<<m, "memory", mods[m].memories[i].name>> : i \in DOMAIN mods[m].memories}
           : m \in ms}

\* the name "__<n>"
AutoName(n) == "__" \o ToString(n)

\* C21: between two ResetDesign calls the counter never decreases; every
\* signal or memory that gets a name from ChipyAutoName in a step gets
\* "__<n>" for an n above the counter before the step and up to the counter
\* after it, and two of them get different names.  So in every state the
\* auto-named signals and memories of the modules registered since the last
\* ResetDesign have pairwise different names "__<n>" with n from 1 to the
\* counter.
C21_AutoNamesIncrease ==
    /\ [](LET session == AutoNamed(modules, Range(ChipyModulesDict))
          IN /\ \A e \in session : \E n \in 1..ChipyIdCounter : e[3] = AutoName(n)
             /\ \A e, f \in session : e[3] = f[3] => e = f)
    /\ [][IF Called("ResetDesign") /\ Last'.args[1] = NoExc
          THEN ChipyIdCounter' = 0
          ELSE LET new == AutoNamed(modules', DOMAIN modules')
                              \ AutoNamed(modules, DOMAIN modules)
               IN /\ ChipyIdCounter' >= ChipyIdCounter
                  /\ \A e \in new :
                         \E n \in (ChipyIdCounter + 1)..ChipyIdCounter' : e[3] = AutoName(n)
                  /\ \A e, f \in new : e[3] = f[3] => e = f]_vars

\* a + a, a memory without a name and a + a again were named __1, __2, __3
C21_Witness ==
    /\ ChipyIdCounter = 3 /\ exc = NoExc
    /\ "m" \in Range(ChipyModulesDict)
    /\ DOMAIN modules["m"].signals = {"a", "__1", "__3"}
    /\ Len(modules["m"].memories) = 1 /\ modules["m"].memories[1].name = "__2"
    /\ \A i \in DOMAIN hist : hist[i].op # "ResetDesign"

---------------------------------------------------------------------------
(* SpecThreads: two threads of one host program.  tls is a TLSDefaults: a    *)
(* thread's first read of an attribute sets it, for that thread, to the      *)
(* value held in _defaults; an assignment sets it for that thread only.  The *)
(* defaults None and 0 are immutable; the default of ChipyModulesDict is one *)
(* dict object, dicts[DefaultDict].  Each builder call is one step.          *)

\* builder calls and with-block ends the two threads make together
MaxThreadCalls == 5

Threads == {1, 2}

\* the dict object created by "ChipyModulesDict={}" in the call of TLSDefaults
DefaultDict == 1

\* a thread's tls before its first access, and no object of its own
ThreadStart == [mods |-> <<>>, dict |-> Unset, ctxs |-> <<>>, cur |-> NoCtx,
                els |-> NoCtx, idc |-> 0, exc |-> NoExc, withs |-> <<>>]

\* TLSDefaults.__getattr__("ChipyModulesDict") in thread t: the dict object
\* the thread refers to, after the default was set if it had none
TlsGetDict(t) == IF threads[t].dict = Unset THEN DefaultDict ELSE threads[t].dict

\* what the handlers see when they run in thread t
ThreadState(t) ==
    [mods |-> threads[t].mods, dict |-> dicts[TlsGetDict(t)], ctxs |-> threads[t].ctxs,
     cur |-> threads[t].cur, els |-> threads[t].els, idc |-> threads[t].idc,
     exc |-> NoExc]

\* the state after a call of thread t that ended in state s, with tls of t
\* referring to the dict object ref and the dict objects being ds
ThreadReturn(t, s, ref, ds, call, frames) ==
    LET u == IF Raised(s) THEN Unwind(s, threads[t].withs) ELSE s IN
    /\ threads' = [threads EXCEPT ![t] =
                      [mods |-> u.mods, dict |-> ref, ctxs |-> u.ctxs, cur |-> u.cur,
                       els |-> u.els, idc |-> u.idc, exc |-> u.exc,
                       withs |-> IF Raised(s) THEN <<>> ELSE frames]]
    /\ dicts' = ds
    /\ hist' = Append(hist, call)
    /\ calls' = calls + 1
    /\ UNCHANGED <<modules, ChipyModulesDict, contexts, ChipyCurrentContext,
                   ChipyElseContext, ChipyIdCounter, withs, exc, out, budget>>

ThreadRunning(t) == threads[t].exc = NoExc /\ calls < budget

\* the signals thread t holds, of the module it is building
ThreadHeld(t) ==
    IF threads[t].cur = NoCtx THEN {}
    ELSE DOMAIN threads[t].mods[threads[t].ctxs[threads[t].cur].module].signals

ThreadModule(t) == threads[t].ctxs[threads[t].cur].module

\* "with AddModule(name):" in thread t: ChipyModule.__init__ reads
\* tls.ChipyModulesDict and inserts into the dict object it gets
ThreadAddModule(t, name) ==
    /\ ThreadRunning(t)
    /\ LET ref == TlsGetDict(t)
           s1 == ChipyModule(ThreadState(t), name)
           s2 == ModuleEnter(s1, name)
           s == IF Raised(s1) THEN s1 ELSE s2
       IN ThreadReturn(t, s, ref, [dicts EXCEPT ![ref] = s.dict],
                       Call("AddModule", <<t, name>>),
                       Append(threads[t].withs, Frame("module", Len(s.ctxs))))

\* ResetDesign() in thread t: tls.ChipyModulesDict = dict() makes a new object
ThreadResetDesign(t) ==
    /\ ThreadRunning(t)
    /\ LET s == ResetDesign(ThreadState(t))
       IN IF Raised(s)
          THEN ThreadReturn(t, s, threads[t].dict, dicts,
                            Call("ResetDesign", <<t>>), threads[t].withs)
          ELSE ThreadReturn(t, s, Len(dicts) + 1, Append(dicts, s.dict),
                            Call("ResetDesign", <<t>>), threads[t].withs)

ThreadAddInput(t, name, type) ==
    /\ ThreadRunning(t)
    /\ ThreadReturn(t, AddInput(ThreadState(t), name, type), threads[t].dict, dicts,
                    Call("AddInput", <<t, name, type>>), threads[t].withs)

\* a + b in thread t
ThreadBinaryOp(t, vlogop, a, b) ==
    /\ ThreadRunning(t)
    /\ a \in ThreadHeld(t) /\ b \in ThreadHeld(t)
    /\ ThreadReturn(t, ChipyBinaryOp(ThreadState(t), vlogop, ThreadModule(t), a,
                                     ThreadModule(t), b, TRUE, FALSE),
                    threads[t].dict, dicts,
                    Call("ChipyBinaryOp", <<t, vlogop, a, b>>), threads[t].withs)

ThreadIf(t, cond) ==
    /\ ThreadRunning(t)
    /\ cond \in ThreadHeld(t)
    /\ LET s == IfBegin(ThreadState(t), ThreadModule(t), cond)
       IN ThreadReturn(t, s, threads[t].dict, dicts, Call("If", <<t, cond>>),
                       Append(threads[t].withs, Frame("If", Len(s.ctxs))))

\* the end of the innermost with-block of thread t
ThreadEnd(t) ==
    /\ ThreadRunning(t)
    /\ threads[t].withs # <<>>
    /\ LET f == threads[t].withs[Len(threads[t].withs)]
           s == IF f.kind = "If" THEN IfEnd(ThreadState(t), f.ctx)
                ELSE ModuleExit(ThreadState(t))
       IN ThreadReturn(t, s, threads[t].dict, dicts, Call("End", <<t, f.kind>>),
                       SubSeq(threads[t].withs, 1, Len(threads[t].withs) - 1))

InitThreads ==
    /\ modules = S0.mods
    /\ ChipyModulesDict = S0.dict
    /\ contexts = S0.ctxs
    /\ ChipyCurrentContext = S0.cur
    /\ ChipyElseContext = S0.els
    /\ ChipyIdCounter = S0.idc
    /\ withs = <<>>
    /\ exc = NoExc
    /\ hist = <<>>
    /\ out = NoOut
    /\ calls = 0
    /\ budget = MaxThreadCalls
    /\ threads = [t \in Threads |-> ThreadStart]
    /\ dicts = <<<<>>>>

NextThreads ==
    \E t \in Threads :
        \/ \E name \in {"m", "n"} : ThreadAddModule(t, name)
        \/ ThreadResetDesign(t)
        \/ ThreadAddInput(t, "a", 1)
        \/ ThreadBinaryOp(t, "+", "a", "a")
        \/ ThreadIf(t, "a")
        \/ ThreadEnd(t)

SpecThreads == InitThreads /\ [][NextThreads]_vars

---------------------------------------------------------------------------
(* Claims checked under SpecThreads. *)

\* what thread t sees in tls: its registry, its contexts and current context,
\* its pending-else slot and its auto-name counter
TlsView(t) ==
    [ChipyModulesDict |-> dicts[TlsGetDict(t)],
     contexts |-> threads[t].ctxs,
     ChipyCurrentContext |-> threads[t].cur,
     ChipyElseContext |-> threads[t].els,
     ChipyIdCounter |-> threads[t].idc]

\* thread t made a call in this step
CalledBy(t) == Len(hist') = Len(hist) + 1 /\ Last'.args[1] = t

\* C16: in every interleaving of the calls of two threads, a call of one
\* thread leaves the registry, the contexts, the pending-else slot and the
\* auto-name counter of the other thread unchanged, and AddModule(name)
\* succeeds in a thread that has not added that name itself, whether or not
\* the threads have called ResetDesign.
C16_ThreadsIsolated ==
    [][\A t \in Threads :
          CalledBy(t) =>
              /\ \A u \in Threads \ {t} : TlsView(u)' = TlsView(u)
              /\ (/\ Last'.op = "AddModule"
                  /\ \A i \in DOMAIN hist :
                         hist[i] # Call("AddModule", <<t, Last'.args[2]>>))
                 => threads'[t].exc = NoExc]_vars

\* neither thread has called ResetDesign; thread 1 has added module m and
\* AddModule("m") of thread 2 has raised "already in use"
C16_Witness ==
    /\ \A i \in DOMAIN hist : hist[i].op # "ResetDesign"
    /\ \E i \in DOMAIN hist : hist[i] = Call("AddModule", <<1, "m">>)
    /\ Last = Call("AddModule", <<2, "m">>)
    /\ \A i \in 1..(Len(hist) - 1) : hist[i] # Call("AddModule", <<2, "m">>)
    /\ threads[2].exc = "ChipyError: Module name m already in use"
    /\ threads[1].exc = NoExc

---------------------------------------------------------------------------
(* SpecDeps: expressions of expressions.  The host program has opened module *)
(* m and added the inputs clk, a and b; it builds sums of the signals it     *)
(* holds, opens If blocks on them (which materializes the condition), takes  *)
(* them as the right-hand side of an assignment to the register q, and       *)
(* emits the module.                                                         *)

\* builder calls a host program of SpecDeps makes after its prelude
MaxDepCalls == 4

\* the names of the expressions a host program of SpecDeps can build
DepNames == {"__1", "__2", "__3", "__4", "__5"}

PreludeDeps == AddReg(PreludeInputs, "q", 8, "clk", None, FALSE, FALSE)

InitDeps == Started(PreludeDeps, <<Frame("module", 1)>>, MaxDepCalls)

NextDeps ==
    \/ \E x \in {"a", "b"} \cup DepNames, y \in {"a", "__1"} : DoBinaryOp("+", x, y)
    \/ \E cond \in DepNames : DoIf(cond)
    \/ \E rhs \in DepNames : DoAssign("q", rhs)
    \/ DoEnd
    \/ DoModuleExit
    \/ DoWriteVerilog("m")

SpecDeps == InitDeps /\ [][NextDeps]_vars

---------------------------------------------------------------------------
(* Claims checked under SpecDeps. *)

\* C17: in every reachable state every signal in the deps of a materialized
\* signal is materialized, and no step takes materialize from true to false.
C17_MaterializeClosed ==
    /\ [](\A n \in DOMAIN M.signals :
              M.signals[n].materialize =>
                  \A d \in M.signals[n].deps :
                      d \in DOMAIN M.signals /\ M.signals[d].materialize)
    /\ [][\A n \in DOMAIN M.signals :
              M.signals[n].materialize =>
                  n \in DOMAIN M'.signals /\ M'.signals[n].materialize]_vars

\* __3 = __2 + a and __2 = __1 + a were built from signals not materialized,
\* and the use of __3 has materialized the three
C17_Witness ==
    /\ "__3" \in DOMAIN M.signals /\ "__2" \in M.signals["__3"].deps
    /\ "__1" \in M.signals["__2"].deps
    /\ M.signals["__3"].materialize
    /\ M.signals["__2"].materialize /\ M.signals["__1"].materialize
    /\ Len(hist) = 4 /\ Last.op \in {"If", "Assign"} /\ Last.args[Len(Last.args)] = "__3"

---------------------------------------------------------------------------
(* SpecOps: the binary operators.  The host program has opened module A,     *)
(* added the signed input a, opened module B inside it and added the signed  *)
(* input b and the unsigned input x; it holds the three signals and applies  *)
(* a binary operator to two of them, or to one and the integer 5 in either   *)
(* order, inside B, inside A after the end of B, or outside both.            *)

\* operator applications a host program of SpecOps makes after its prelude
MaxOpCalls == 1

PreludeOps ==
    LET s1 == AddInput(ModuleEnter(ChipyModule(S0, "A"), "A"), "a", -4)
        s2 == AddInput(ModuleEnter(ChipyModule(s1, "B"), "B"), "b", -8)
    IN AddInput(s2, "x", 4)

InitOps == Started(PreludeOps, <<Frame("module", 1), Frame("module", 2)>>, MaxOpCalls)

\* the operands: the signals a host program can hold, and the integer 5
Operands ==
    {<<None, 5>>, <<"A", "a">>, <<"B", "b">>, <<"B", "x">>, <<"A", "__1">>, <<"B", "__1">>}

NextOps ==
    \/ \E vlogop \in BinaryOperators \cup ShiftOperators, l \in Operands, r \in Operands :
           DoOperator(vlogop, l[1], l[2], r[1], r[2])
    \/ DoModuleExit

SpecOps == InitOps /\ [][NextOps]_vars

---------------------------------------------------------------------------
(* Claims checked under SpecOps. *)

\* the name the next ChipySignal without a name gets
NextAutoName == "__" \o ToString(ChipyIdCounter + 1)

\* the owners of the operands of the operator applied in this step
Owners == {Last'.args[2], Last'.args[4]} \ {None}

\* the operator applied in this step made a new signal owned by module m
ResultOwnedBy(m) ==
    /\ exc' = NoExc
    /\ NextAutoName \notin DOMAIN modules[m].signals
    /\ NextAutoName \in DOMAIN modules'[m].signals
    /\ modules'[m].signals[NextAutoName].module = m
    /\ \A o \in DOMAIN modules \ {m} : modules'[o] = modules[o]

\* C18 as stated: an operator applied while a module context is open yields
\* a signal owned by the one module that owns operands, whichever module the
\* open context belongs to, and raises exactly when the operands have two
\* different owners.
C18_OwnerOfOperands ==
    [][(Called("Operator") /\ ChipyCurrentContext # NoCtx) =>
          IF Cardinality(Owners) = 1
          THEN \E m \in Owners : ResultOwnedBy(m)
          ELSE exc' # NoExc]_vars

\* C18: an operator applied while the context of module cm is open yields a
\* signal owned by cm if every operand is a literal or a signal of cm;
\* it raises and makes no signal if an operand is owned by another module,
\* also when all operands are owned by that same other module; applied
\* while no context is open it raises.
C18_OwnerIsCurrentModule ==
    [][Called("Operator") =>
          IF ChipyCurrentContext = NoCtx
          THEN /\ exc' = "ChipyError: ChipySameModule called outside chipy context"
               /\ modules' = modules
          ELSE IF Owners \subseteq {CurModule}
          THEN ResultOwnedBy(CurModule)
          ELSE /\ exc' = "ValueError: Modules are none or not the same."
               /\ modules' = modules]_vars

\* inside the with-block of B, a + a for the signal a of module A has raised
C18_Witness ==
    /\ hist = <<Call("Operator", <<"+", "A", "a", "A", "a">>)>>
    /\ exc = "ValueError: Modules are none or not the same."
    /\ DOMAIN modules["A"].signals = {"a"}
    /\ DOMAIN modules["B"].signals = {"b", "x"}

\* width and signedness of an operand: an integer is coerced to 32 bits, signed
OperandWidth(m, n) == IF m = None THEN 32 ELSE modules[m].signals[n].width
OperandSigned(m, n) == IF m = None THEN TRUE ELSE modules[m].signals[n].signed

\* C20: the result of an arithmetic or bitwise operator has the larger of the
\* widths of its operands and is signed iff both are signed; the result of a
\* shift has the width and the signedness of its left operand; an integer
\* operand, on either side, counts as 32 bits signed.
C20_ResultWidthAndSign ==
    [][(Called("Operator") /\ exc' = NoExc) =>
          LET vlogop == Last'.args[1]
              lw == OperandWidth(Last'.args[2], Last'.args[3])
              ls == OperandSigned(Last'.args[2], Last'.args[3])
              rw == OperandWidth(Last'.args[4], Last'.args[5])
              rs == OperandSigned(Last'.args[4], Last'.args[5])
              result == modules'[CurModule].signals[NextAutoName]
          IN IF vlogop \in {"<<<", ">>>"}
             THEN result.width = lw /\ result.signed = ls
             ELSE /\ result.width = (IF lw >= rw THEN lw ELSE rw)
                  /\ result.signed = (ls /\ rs)]_vars

\* 5 << x for the unsigned 4-bit input x of B: the result has 32 bits, signed
C20_Witness ==
    /\ hist = <<Call("Operator", <<"<<<", None, 5, "B", "x">>)>>
    /\ exc = NoExc
    /\ modules["B"].signals["__1"].width = 32
    /\ modules["B"].signals["__1"].signed
    /\ modules["B"].signals["__1"].vlog_rvalue = "32'sd5 <<< x"

---------------------------------------------------------------------------
(* SpecBundle: Assign on bundles.  The host program has opened module m and  *)
(* added the inputs clk, a and b and the registers q and y clocked by clk;   *)
(* at the top level of the module it assigns bundles of a and b to bundles   *)
(* of q and y, zips lists and mappings of such bundles, and emits the        *)
(* module.                                                                   *)

\* bundle assignments a host program of SpecBundle makes after its prelude
MaxBundleCalls == 2

PreludeBundle ==
    AddReg(AddReg(PreludeInputs, "q", 8, "clk", None, FALSE, FALSE),
           "y", 8, "clk", None, FALSE, FALSE)

InitBundle == Started(PreludeBundle, <<Frame("module", 1)>>, MaxBundleCalls)

\* the left-hand sides: the register q, and bundles of q and y
LhsBundles ==
    {SigRef("q"),
     Bundle(<<Member("p", SigRef("q"))>>),
     Bundle(<<Member("p", SigRef("q")), Member("o", SigRef("y"))>>),
     Bundle(<<Member("p", SigRef("q")), Member("u", SigRef("y"))>>),
     Bundle(<<Member("p", SigRef("q")),
              Member("u", Bundle(<<Member("o", SigRef("y"))>>))>>)}

\* the right-hand sides: the input a, and bundles of a and b
RhsBundles ==
    {SigRef("a"),
     Bundle(<<Member("p", SigRef("a"))>>),
     Bundle(<<Member("p", SigRef("a")), Member("o", SigRef("b"))>>),
     Bundle(<<Member("o", SigRef("b")), Member("p", SigRef("a"))>>),
     Bundle(<<Member("p", SigRef("a")), Member("u", SigRef("b"))>>),
     Bundle(<<Member("p", SigRef("a")),
              Member("u", Bundle(<<Member("o", SigRef("b"))>>))>>),
     Bundle(<<Member("p", SigRef("a")),
              Member("u", Bundle(<<Member("o", SigRef("b")),
                                   Member("p", SigRef("a"))>>))>>)}

\* the lists of bundles given to Zip: none, bundles without members, one
\* bundle, two bundles with the same member names in the same or another
\* order or with different ones, and bundles of bundles
ZipLists ==
    {<<>>,
     <<Bundle(<<>>), Bundle(<<>>)>>,
     <<Bundle(<<Member("p", SigRef("q"))>>)>>,
     <<Bundle(<<Member("p", SigRef("q")), Member("o", SigRef("y"))>>),
       Bundle(<<Member("p", SigRef("a")), Member("o", SigRef("b"))>>)>>,
     <<Bundle(<<Member("p", SigRef("q")), Member("o", SigRef("y"))>>),
       Bundle(<<Member("o", SigRef("b")), Member("p", SigRef("a"))>>)>>,
     <<Bundle(<<Member("p", SigRef("q"))>>),
       Bundle(<<Member("p", SigRef("a")), Member("o", SigRef("b"))>>)>>,
     <<Bundle(<<Member("u", Bundle(<<Member("o", SigRef("y"))>>))>>),
       Bundle(<<Member("u", Bundle(<<Member("o", SigRef("b"))>>))>>)>>,
     <<Bundle(<<Member("u", Bundle(<<>>))>>)>>}

\* the bundles split with regs() and nonregs(): q and y are registers, a and
\* b are not
RegBundles ==
    {Bundle(<<>>),
     Bundle(<<Member("p", SigRef("a"))>>),
     Bundle(<<Member("p", SigRef("q")), Member("o", SigRef("a"))>>),
     Bundle(<<Member("p", SigRef("q")), Member("o", SigRef("y"))>>),
     Bundle(<<Member("u", Bundle(<<Member("p", SigRef("a"))>>))>>),
     Bundle(<<Member("u", Bundle(<<Member("p", SigRef("q")), Member("o", SigRef("b"))>>)),
              Member("v", Bundle(<<Member("p", SigRef("a")), Member("o", SigRef("y"))>>)),
              Member("p", SigRef("y")),
              Member("o", SigRef("b"))>>)}

\* the mappings of bundles given to Zip
ZipMappings ==
    {<<Member("k1", Bundle(<<Member("p", SigRef("q"))>>)),
       Member("k2", Bundle(<<Member("p", SigRef("a"))>>))>>,
     <<Member("k1", Bundle(<<>>))>>}

NextBundle ==
    \/ \E lhs \in LhsBundles, rhs \in RhsBundles : DoAssignBundle(lhs, rhs)
    \/ \E bundles \in ZipLists : DoZip(bundles, TRUE)
    \/ \E bundles \in ZipMappings : DoZip(bundles, FALSE)
    \/ \E bundle \in RegBundles : DoRegs(bundle)
    \/ DoModuleExit
    \/ DoWriteVerilog("m")

SpecBundle == InitBundle /\ [][NextBundle]_vars

---------------------------------------------------------------------------
(* Claims checked under SpecBundle. *)

\* the two have the same tree of member names
RECURSIVE SameStructure(_, _)
SameStructure(l, r) ==
    /\ l.kind = r.kind
    /\ l.kind = "bundle" =>
           /\ {l.members[i].name : i \in DOMAIN l.members}
                  = {r.members[j].name : j \in DOMAIN r.members}
           /\ \A i \in DOMAIN l.members, j \in DOMAIN r.members :
                  l.members[i].name = r.members[j].name
                      => SameStructure(l.members[i].value, r.members[j].value)

\* the number of signals in a bundle; 1 for a signal
RECURSIVE Leaves(_)
RECURSIVE LeavesFrom(_, _)
LeavesFrom(members, i) ==
    IF i > Len(members) THEN 0
    ELSE Leaves(members[i].value) + LeavesFrom(members, i + 1)
Leaves(b) == IF b.kind = "signal" THEN 1 ELSE LeavesFrom(b.members, 1)

\* C19: an Assign of bundles (or of a bundle and a signal) made at the top
\* level of module m succeeds exactly when both sides have the same tree of
\* member names, and then makes one assignment per signal of the left side;
\* a member in one of the two only, or a bundle paired with a signal, makes
\* it raise.
C19_BundleAssignSameStructure ==
    [][Called("AssignBundle") =>
          LET lhs == Last'.args[1]
              rhs == Last'.args[2]
          IN IF SameStructure(lhs, rhs)
             THEN /\ exc' = NoExc
                  /\ Len(M'.code_snippets) = Len(M.code_snippets) + Leaves(lhs)
             ELSE exc' # NoExc]_vars

\* Assign(Bundle(p_=q), Bundle(p_=a, o_=b)) has returned without an error,
\* having assigned a to q
C19_Witness ==
    /\ hist = <<Call("AssignBundle",
                     <<Bundle(<<Member("p", SigRef("q"))>>),
                       Bundle(<<Member("p", SigRef("a")), Member("o", SigRef("b"))>>)>>)>>
    /\ exc = NoExc
    /\ Len(M.code_snippets) = 1
    /\ M.code_snippets[1].text_lines = <<"    __next__q = a;">>

---------------------------------------------------------------------------
(* Claims checked under SpecBundle: Zip. *)

\* the member of a bundle with the given name
MemberOf(bundle, name) ==
    bundle.members[CHOOSE i \in DOMAIN bundle.members : bundle.members[i].name = name].value

\* what C22 says Zip returns: for every member name of the bundles, the
\* list or the mapping of the members of that name
Zipped(bundles, list_mode) ==
    LET first == IF list_mode THEN bundles[1] ELSE bundles[1].value IN
    [i \in DOMAIN first.members |->
        Member(first.members[i].name,
               [k \in DOMAIN bundles |->
                   IF list_mode THEN MemberOf(bundles[k], first.members[i].name)
                   ELSE Member(bundles[k].name,
                               MemberOf(bundles[k].value, first.members[i].name))])]

\* the bundles rebuilt from what Zip returned: bundle k has, for every name,
\* member k of the value of that name
Unzipped(ret, bundles, list_mode) ==
    [k \in DOMAIN bundles |->
        Bundle([i \in DOMAIN ret |->
                   Member(ret[i].name,
                          IF list_mode THEN ret[i].value[k] ELSE ret[i].value[k].value)])]

\* C22: Zip of a non-empty list or mapping of bundles with the same member
\* names raises nothing and returns, for every member name, the list or the
\* mapping of the members of that name; the bundles rebuilt from it have the
\* members of the bundles given, name by name.
C22_ZipRoundTrip ==
    [][(/\ Called("Zip")
        /\ Len(Last'.args[1]) > 0
        /\ LET list_mode == Last'.args[2]
               given == [k \in DOMAIN Last'.args[1] |->
                            IF list_mode THEN Last'.args[1][k] ELSE Last'.args[1][k].value]
           IN \A k \in DOMAIN given : Keys(given[k].members) = Keys(given[1].members))
       => LET bundles == Last'.args[1]
              list_mode == Last'.args[2]
              ret == Last'.args[3]
              given == [k \in DOMAIN bundles |->
                           IF list_mode THEN bundles[k] ELSE bundles[k].value]
          IN /\ exc' = NoExc
             /\ ret = Zipped(bundles, list_mode)
             /\ \A k \in DOMAIN bundles :
                    \A i \in DOMAIN given[k].members :
                        MemberOf(Unzipped(ret, bundles, list_mode)[k],
                                 given[k].members[i].name)
                            = given[k].members[i].value]_vars

\* Zip([Bundle(p_=q, o_=y), Bundle(p_=a, o_=b)]) has raised NotImplementedError
\* and made no signal
C22_Witness ==
    /\ Last.op = "Zip"
    /\ Last.args[1] = <<Bundle(<<Member("p", SigRef("q")), Member("o", SigRef("y"))>>),
                        Bundle(<<Member("p", SigRef("a")), Member("o", SigRef("b"))>>)>>
    /\ exc = NotImplementedError
    /\ DOMAIN M.signals = {"clk", "a", "b", "q", "y"}

---------------------------------------------------------------------------
(* Claims checked under SpecBundle: regs() and nonregs(). *)

\* the signals of a bundle, each with the path of member names that leads to
\* it
RECURSIVE LeafPaths(_, _)
LeafPaths(b, path) ==
    IF b.kind = "signal" THEN {<<path, b.name>>}
    ELSE UNION {LeafPaths(b.members[i].value, Append(path, b.members[i].name)) :
                   i \in DOMAIN b.members}

\* C23: regs() and nonregs() split the signals of a bundle: every signal of
\* the bundle is in exactly one of the two results, under the path of member
\* names it has in the bundle, in regs() exactly when it is a register, and
\* the results hold no other signal.
C23_RegsPartition ==
    [][Called("Regs") =>
          LET all == LeafPaths(Last'.args[1], <<>>)
              inregs == LeafPaths(Last'.args[2], <<>>)
              innonregs == LeafPaths(Last'.args[3], <<>>)
          IN /\ inregs \cup innonregs = all
             /\ inregs \cap innonregs = {}
             /\ \A leaf \in all :
                    leaf \in inregs <=> modules'["m"].signals[leaf[2]].register]_vars

\* a bundle of two bundles and two signals, with a register and another
\* signal at each level, has been split
C23_Witness ==
    /\ Last.op = "Regs"
    /\ LeafPaths(Last.args[2], <<>>)
           = {<<<<"u", "p">>, "q">>, <<<<"v", "o">>, "y">>, <<<<"p">>, "y">>}
    /\ LeafPaths(Last.args[3], <<>>)
           = {<<<<"u", "o">>, "b">>, <<<<"v", "p">>, "a">>, <<<<"o">>, "b">>}

---------------------------------------------------------------------------
(* Claims checked under SpecBlocks: the stack of contexts. *)

\* the text lines and the indentation of snippet k of module m (those of a new
\* snippet if the module has no such snippet yet)
LinesAt(mods, m, k) ==
    IF k \in DOMAIN mods[m].code_snippets THEN mods[m].code_snippets[k].text_lines
    ELSE ChipySnippet.text_lines

IndentAt(mods, m, k) ==
    IF k \in DOMAIN mods[m].code_snippets THEN mods[m].code_snippets[k].indent_str
    ELSE ChipySnippet.indent_str

\* the number of spaces a line starts with
RECURSIVE SpacesFrom(_, _)
SpacesFrom(line, k) ==
    IF k < Len(line) /\ SubSeq(line, k + 1, k + 1) = " " THEN SpacesFrom(line, k + 1) ELSE k

LeadingSpaces(line) == SpacesFrom(line, 0)

\* line starts with text
StartsWith(line, text) == Len(line) >= Len(text) /\ SubSeq(line, 1, Len(text)) = text

\* the last of the first j lines that is not indented deeper than indent (0
\* if there is none)
RECURSIVE LastOuter(_, _, _)
LastOuter(lines, j, indent) ==
    IF j = 0 \/ ~StartsWith(lines[j], indent \o " ") THEN j
    ELSE LastOuter(lines, j - 1, indent)

\* the line opens a block at the indentation indent
IsBeginLine(line, indent) ==
    /\ StartsWith(line, indent)
    /\ \/ SubSeq(line, Len(line) - 4, Len(line)) = "begin"
       \/ StartsWith(line, indent \o "case (")

\* the begin-line of the block a call opens
BeginLine(call) ==
    CASE call.op = "If" -> "if (" \o call.args[1] \o ") begin"
      [] call.op = "Else" -> "else begin"
      [] call.op = "Switch" -> "case (" \o call.args[1] \o ")"
      [] call.op = "Case" -> SigInt(call.args[1], -32) \o ": begin"
      [] call.op = "Default" -> "default: begin"

\* the end-line of a block
EndLine(kind) == IF kind = "Switch" THEN "endcase" ELSE "end"

\* a block was opened in this step: its context is pushed on the current one,
\* its begin-line is appended to its snippet at the indentation the snippet
\* had, which grows by two spaces
BlockOpened ==
    LET c == ChipyCurrentContext'
        m == contexts'[c].module
        k == contexts'[c].snippet
    IN /\ c # ChipyCurrentContext
       /\ contexts'[c].parent = ChipyCurrentContext
       /\ withs' = Append(withs, Frame(Last'.op, c))
       /\ LinesAt(modules', m, k)
              = Append(LinesAt(modules, m, k), IndentAt(modules, m, k) \o BeginLine(Last'))
       /\ IndentAt(modules', m, k) = IndentAt(modules, m, k) \o "  "

\* the innermost block was closed in this step: two spaces are taken from the
\* indentation of its snippet, its end-line is appended there, at the
\* indentation of the begin-line it closes, and its context is popped
BlockClosed ==
    LET f == withs[Len(withs)]
        c == f.ctx
        m == contexts[c].module
        k == contexts[c].snippet
        lines == LinesAt(modules', m, k)
        n == Len(lines)
    IN /\ ChipyCurrentContext = c
       /\ ChipyCurrentContext' = contexts[c].parent
       /\ contexts'[c].parent = NoCtx
       /\ withs' = SubSeq(withs, 1, Len(withs) - 1)
       /\ IndentAt(modules, m, k) = IndentAt(modules', m, k) \o "  "
       /\ lines = Append(LinesAt(modules, m, k),
                         IndentAt(modules', m, k) \o EndLine(f.kind))
       /\ LET j == LastOuter(lines, n - 1, IndentAt(modules', m, k))
          IN /\ j > 0
             /\ IsBeginLine(lines[j], IndentAt(modules', m, k))

\* an Assign was made in this step: its context is entered and left in the
\* call, which appends one line at the indentation of the snippet
OneLineContext ==
    /\ ChipyCurrentContext' = ChipyCurrentContext
    /\ contexts' = contexts
    /\ withs' = withs
    /\ LET m == CurModule
           k == IF contexts[ChipyCurrentContext].snippet = 0
                THEN Len(modules[m].code_snippets) + 1
                ELSE contexts[ChipyCurrentContext].snippet
           lines == LinesAt(modules', m, k)
       IN /\ Len(lines) = Len(LinesAt(modules, m, k)) + 1
          /\ SubSeq(lines, 1, Len(lines) - 1) = LinesAt(modules, m, k)
          /\ LeadingSpaces(lines[Len(lines)]) = Len(IndentAt(modules, m, k))
          /\ IndentAt(modules', m, k) = IndentAt(modules, m, k)

\* the contexts of the open with-blocks are a stack with the current context
\* on top; outside every block each snippet has its initial indentation of
\* four spaces; a context that is not open takes no line
StackOfContexts ==
    exc = NoExc =>
        /\ ChipyCurrentContext = IF withs = <<>> THEN NoCtx ELSE withs[Len(withs)].ctx
        /\ \A i \in DOMAIN withs :
               contexts[withs[i].ctx].parent = IF i = 1 THEN NoCtx ELSE withs[i - 1].ctx
        /\ Innermost \in {"none", "module"} =>
               \A m \in DOMAIN modules : \A k \in DOMAIN modules[m].code_snippets :
                   modules[m].code_snippets[k].indent_str = ChipySnippet.indent_str
        /\ \A c \in DOMAIN contexts :
               (\A i \in DOMAIN withs : withs[i].ctx # c) =>
                   /\ contexts[c].parent = NoCtx
                   /\ add_line(State, c, "x", {}).exc
                          = "ValueError: Trying to add line to closed context."

\* C24: the contexts of blocks are a stack.  An If, Else, Switch, Case or
\* Default that raises nothing pushes its context, appends its begin-line at
\* the indentation of its snippet and adds two spaces to it; the end of the
\* block takes the two spaces away, appends the end-line at the indentation
\* of the begin-line and pops the context; an Assign enters and leaves its
\* context in one call.  While nothing has raised, the current context is the
\* one of the innermost open with-block, so that closing a block gives back
\* the context that was current when it opened; outside every block each
\* snippet is indented by four spaces; and add_line on a closed context
\* raises ValueError.
C24_BlockStack ==
    /\ []StackOfContexts
    /\ [][/\ (exc' = NoExc /\ \E op \in {"If", "Else", "Switch", "Case", "Default"} :
                                  Called(op)) => BlockOpened
          /\ (exc' = NoExc /\ Called("End")) => BlockClosed
          /\ (exc' = NoExc /\ Called("Assign")) => OneLineContext]_vars

\* a Switch with a Case and an assignment in it, inside an If, all closed
C24_Witness ==
    /\ hist = <<Call("If", <<"sel">>), Call("Switch", <<"a", FALSE, FALSE>>),
                Call("Case", <<1>>), Call("Assign", <<"r", "a">>),
                Call("End", <<"Case">>), Call("End", <<"Switch">>),
                Call("End", <<"If">>)>>
    /\ exc = NoExc
    /\ ChipyCurrentContext = 1
    /\ Len(M.code_snippets) = 1
    /\ Len(M.code_snippets[1].text_lines) = 7
    /\ M.code_snippets[1].indent_str = "    "

---------------------------------------------------------------------------
(* SpecRegs: registers and their synchronization elements.  The host program *)
(* has opened module m and added the inputs clk and a; it then adds the      *)
(* register r and the output o with or without clock edges and async, gives  *)
(* signals flip-flops and async elements and connects signals, and goes on   *)
(* after a call that raised.                                                 *)

\* builder calls a host program of SpecRegs makes after its prelude
MaxRegCalls == 3

\* with AddModule("m"): AddInput("clk"); AddInput("a", 8)
PreludeRegisters == AddInput(AddInput(ModuleEnter(ChipyModule(S0, "m"), "m"), "clk", 1), "a", 8)

InitRegs == Started(PreludeRegisters, <<Frame("module", 1)>>, MaxRegCalls)

NextRegs ==
    \/ \E posedge \in Clocks, negedge \in Clocks, async \in BOOLEAN :
           TryAddReg("r", 8, posedge, negedge, FALSE, async)
    \/ \E posedge \in Clocks, async \in BOOLEAN :
           TryAddOutput("o", 8, posedge, None, FALSE, async)
    \/ \E n \in {"r", "o"}, posedge \in Clocks, negedge \in Clocks :
           TryAddFF(n, posedge, negedge, FALSE)
    \/ \E n \in {"a", "r", "o"} : TryAddAsync(n)
    \/ \E sigs \in {<<"a", "r">>, <<"r", "o">>, <<"o", "a">>} : TryConnect(sigs[1], sigs[2])

SpecRegs == InitRegs /\ [][NextRegs]_vars

---------------------------------------------------------------------------
(* Claims checked under SpecRegs. *)

\* the lines that update the register r from __next__r
UpdateLines(r) ==
    {"  always @(" \o edge \o " " \o clock \o ") " \o r \o " <= __next__" \o r \o ";" :
         edge \in {"posedge", "negedge"}, clock \in DOMAIN M.signals}
        \cup {"  assign " \o r \o " = __next__" \o r \o ";"}

\* what the call made in this step raised
RaisedBy(call) == call.args[Len(call.args)]

\* C25: a register has at most one synchronization element.  AddFF and
\* AddAsync raise for a signal that is no register and for a register that
\* has its regaction, and then leave the module as it is; AddReg and
\* AddOutput with a clock edge and async raise; and the regactions of the
\* module never hold more than one line that updates a signal r from
\* __next__r, by a flip-flop or by an assign.
C25_OneSyncElement ==
    /\ [](\A r \in DOMAIN M.signals :
              Len(SelectSeq(M.regactions, LAMBDA line : line \in UpdateLines(r))) <= 1)
    /\ [][/\ ((Called("AddFF") \/ Called("AddAsync"))
                 /\ LET signal == M.signals[Last'.args[1]]
                    IN ~signal.register \/ signal.regaction)
             => /\ RaisedBy(Last') \in
                       {"ChipyError: " \o Last'.op \o " called on non-register signal",
                        "ChipyError: " \o Last'.op
                            \o " called on register with regaction already set"}
                /\ modules' = modules
          /\ ((Called("AddReg") \/ Called("AddOutput"))
                 /\ (Last'.args[3] # None \/ Last'.args[4] # None) /\ Last'.args[6])
             => RaisedBy(Last') # NoExc]_vars

\* AddReg("r", 8, posedge=clk, async=True) has raised and left r with its
\* flip-flop; AddAsync(r) and AddFF(r, posedge=clk) have then raised too
C25_Witness ==
    /\ Len(hist) = 3
    /\ hist[1] = Call("AddReg", <<"r", 8, "clk", None, FALSE, TRUE,
               "ChipyError: AddAsync called on register with regaction already set">>)
    /\ hist[2].op = "AddAsync" /\ hist[2].args[1] = "r" /\ RaisedBy(hist[2]) # NoExc
    /\ hist[3].op = "AddFF" /\ hist[3].args[1] = "r" /\ RaisedBy(hist[3]) # NoExc
    /\ M.regactions = <<"  always @(posedge clk) r <= __next__r;">>

---------------------------------------------------------------------------
(* SpecSlice: parts of signals.  The host program has opened module m and    *)
(* added the inputs clk and a and the register r on posedge clk; it then     *)
(* takes bits, slices and indexed ranges of r, a bit of a and a bit of the   *)
(* first part it took, assigns a to the parts and to a, each Assign at the   *)
(* top level a snippet of its own, and emits the module.                     *)

\* builder calls a host program of SpecSlice makes after its prelude
MaxSliceCalls == 4

\* with AddModule("m"): AddInput("clk"); AddInput("a", 8);
\* AddReg("r", 8, posedge=clk)
PreludeSlice ==
    AddReg(AddInput(AddInput(ModuleEnter(ChipyModule(S0, "m"), "m"), "clk", 1), "a", 8),
           "r", 8, "clk", None, FALSE, FALSE)

InitSlice == Started(PreludeSlice, <<Frame("module", 1)>>, MaxSliceCalls)

\* r[0], r[7:4], r[a], r[0, 4], r[a, -2], a[0] and __1[0]
Parts ==
    {<<"r", IndexInt(0)>>, <<"r", IndexSlice(7, 4)>>, <<"r", IndexSig("a")>>,
     <<"r", IndexRange(0, 4)>>, <<"r", IndexSigRange("a", -2)>>,
     <<"a", IndexInt(0)>>, <<"__1", IndexInt(0)>>}

NextSlice ==
    \/ \E part \in Parts : DoSignalGetItem(part[1], part[2])
    \/ \E lhs \in {"__1", "__2", "a"} : DoAssign(lhs, "a")
    \/ DoModuleExit
    \/ DoWriteVerilog("m")

SpecSlice == InitSlice /\ [][NextSlice]_vars

---------------------------------------------------------------------------
(* Claims checked under SpecSlice. *)

\* the text of an index between the brackets
IndexText(index) ==
    CASE index.kind = "int" -> ToString(index.i)
      [] index.kind = "slice" ->
             ToString(Max(index.i, index.j)) \o ":"
                 \o ToString(IF index.i < index.j THEN index.i ELSE index.j)
      [] index.kind = "signal" -> index.n
      [] index.kind = "range" ->
             ToString(index.i) \o (IF index.j >= 0 THEN " +: " ELSE " -: ")
                 \o ToString(Abs(index.j))
      [] index.kind = "sigrange" ->
             index.n \o (IF index.j >= 0 THEN " +: " ELSE " -: ") \o ToString(Abs(index.j))

\* the signals from n down its dependencies
RECURSIVE Chain(_, _)
Chain(sigs, n) == {n} \cup UNION {Chain(sigs, d) : d \in sigs[n].deps}

\* the always blocks of the emitted module that assign r or a part of it
BlocksOf(r) ==
    {g \in DOMAIN out.always :
        \E i \in DOMAIN out.always[g] : StartsWith(out.always[g][i], "    __next__" \o r)}

\* C26: a bit, a slice or an indexed range of a signal that has an lvalue has
\* the lvalue of the signal followed by the index text in brackets, the same
\* text as in its rvalue.  An Assign to a signal that has an lvalue and is no
\* memory element raises nothing, marks the signal and every signal down its
\* dependencies gotassign, the register at the end among them, and appends
\* "<lvalue> = <rhs>;" to a snippet that has all of them as drivers; so the
\* emitted module has the assignments of r and of its parts in one always
\* block, which has the default line of r too.  An Assign to a signal that
\* has no lvalue and is no memory element raises ValueError and appends no
\* line.
C26_PartialAssign ==
    /\ []((out # NoOut /\ out.status = NoExc) =>
              /\ Cardinality(BlocksOf("r")) <= 1
              /\ \A g \in BlocksOf("r") :
                     \E i \in DOMAIN out.always[g] : out.always[g][i] = "    __next__r = r;")
    /\ [][/\ (Called("SignalGetItem") /\ exc' = NoExc) =>
                LET self == M.signals[Last'.args[1]]
                    part == modules'["m"].signals[NextAutoName]
                    text == "[" \o IndexText(Last'.args[2]) \o "]"
                IN /\ part.vlog_rvalue = self.name \o text
                   /\ part.vlog_lvalue =
                          IF self.vlog_lvalue = None THEN None ELSE self.vlog_lvalue \o text
          /\ (Called("Assign") /\ M.signals[Last'.args[1]].memory = None) =>
                LET lhs == M.signals[Last'.args[1]]
                    chain == Chain(M.signals, lhs.name)
                    snippets == modules'["m"].code_snippets
                IN IF lhs.vlog_lvalue = None
                   THEN /\ exc' = "ValueError: Trying to assign to signal with unset lvalue"
                        /\ snippets = M.code_snippets
                   ELSE /\ exc' = NoExc
                        /\ \A n \in chain : modules'["m"].signals[n].gotassign
                        /\ \E n \in chain : M.signals[n].register
                        /\ snippets = Append(M.code_snippets,
                               [ChipySnippet EXCEPT
                                   !.text_lines = <<"    " \o lhs.vlog_lvalue \o " = "
                                                        \o Last'.args[2] \o ";">>,
                                   !.lvalue_signals = chain])]_vars

\* r[7:4] and r[0] were each assigned a, and the module was emitted
C26_Witness ==
    /\ Len(hist) >= 4
    /\ SubSeq(hist, 1, 4) = <<Call("SignalGetItem", <<"r", IndexSlice(7, 4)>>),
                             Call("SignalGetItem", <<"r", IndexInt(0)>>),
                             Call("Assign", <<"__1", "a">>),
                             Call("Assign", <<"__2", "a">>)>>
    /\ out # NoOut /\ out.status = NoExc
    /\ out.always = << <<"    __next__r = r;", "    __next__r[7:4] = a;",
                         "    __next__r[0] = a;">> >>

---------------------------------------------------------------------------
(* SpecWidth: the widths of signals.  The host program has opened module m   *)
(* and added the input a of 8 bits; it then adds an input, an output and a   *)
(* register of some type, and makes signals of a with Sig, Repeat, Concat,   *)
(* slices and indexed ranges.                                                *)

\* builder calls a host program of SpecWidth makes after its prelude
MaxWidthCalls == 2

\* with AddModule("m"): AddInput("a", 8)
PreludeWidth == AddInput(ModuleEnter(ChipyModule(S0, "m"), "m"), "a", 8)

InitWidth == Started(PreludeWidth, <<Frame("module", 1)>>, MaxWidthCalls)

\* the integer types and widths asked for
Widths == {0, 1, 4, -4}

NextWidth ==
    \/ \E type \in Widths : DoAddInput("x", type)
    \/ \E type \in Widths : DoAddOutput("o", type, None, None, FALSE, FALSE)
    \/ \E type \in Widths : DoAddReg("r", type, None, None, FALSE, FALSE)
    \/ \E width \in Widths : DoSig("a", width)
    \/ \E num \in {0, 1, 2} : DoRepeat(num, "a")
    \/ \E sigs \in {<<>>, <<"a">>, <<"a", "a">>} : DoConcat(sigs)
    \/ \E index \in {IndexInt(0), IndexSlice(3, 0), IndexRange(0, 4), IndexRange(0, 0),
                     IndexSigRange("a", 0)} : DoSignalGetItem("a", index)

SpecWidth == InitWidth /\ [][NextWidth]_vars

---------------------------------------------------------------------------
(* Claims checked under SpecWidth. *)

\* the call made in this step asks for a signal of no bit
AsksWidthZero(call) ==
    \/ call.op \in {"AddInput", "AddOutput", "AddReg"} /\ call.args[2] = 0
    \/ call.op = "Sig" /\ call.args[2] = 0
    \/ call.op = "Repeat" /\ call.args[1] = 0
    \/ call.op = "Concat" /\ call.args[1] = <<>>
    \/ call.op = "SignalGetItem" /\ call.args[2].kind \in {"range", "sigrange"}
           /\ call.args[2].j = 0

\* C27: every signal of the module has a width of at least 1, and a call
\* that asks for width 0 (an integer type 0, Sig with width 0, Repeat with
\* n = 0, an indexed range with w = 0, Concat of nothing) makes no signal.
C27_WidthAtLeastOne ==
    /\ [](\A n \in DOMAIN M.signals : M.signals[n].width >= 1)
    /\ [][(Len(hist') = Len(hist) + 1 /\ AsksWidthZero(Last'))
              => DOMAIN modules'["m"].signals = DOMAIN M.signals]_vars

\* Repeat(0, a) has made the signal __1 of width 0
C27_Witness ==
    /\ hist = <<Call("Repeat", <<0, "a">>)>>
    /\ exc = NoExc
    /\ "__1" \in DOMAIN M.signals
    /\ M.signals["__1"].width = 0
    /\ M.signals["__1"].vlog_rvalue = "{0{a}}"

---------------------------------------------------------------------------
(* SpecIndex: memory elements at computed indices.  The host program has     *)
(* opened module m and added the inputs clk, addr and data, the register q   *)
(* on posedge clk and the memory mem; it then adds addr to itself, takes     *)
(* elements of mem at addr and at the sum, assigns elements to q and data to *)
(* elements, and emits the module.                                           *)

\* builder calls a host program of SpecIndex makes after its prelude
MaxIndexCalls == 3

PreludeIndex ==
    AddMemory(
        AddReg(AddInput(AddInput(AddInput(ModuleEnter(ChipyModule(S0, "m"), "m"),
                                          "clk", 1), "addr", 4), "data", 8),
               "q", 8, "clk", None, FALSE, FALSE),
        "mem", 8, 16, "clk", None)

InitIndex == Started(PreludeIndex, <<Frame("module", 1)>>, MaxIndexCalls)

NextIndex ==
    \/ DoBinaryOp("+", "addr", "addr")
    \/ \E index \in {"addr", "__1"} : DoGetItem("mem", index)
    \/ \E lhs \in {"q", "__1", "__2"}, rhs \in {"data", "__1", "__2"} : DoAssign(lhs, rhs)
    \/ DoModuleExit
    \/ DoWriteVerilog("m")

SpecIndex == InitIndex /\ [][NextIndex]_vars

---------------------------------------------------------------------------
(* Claims checked under SpecIndex. *)

\* the characters of a name
NameChars ==
    {"a", "b", "c", "d", "e", "f", "g", "h", "i", "j", "k", "l", "m", "n", "o", "p",
     "q", "r", "s", "t", "u", "v", "w", "x", "y", "z", "_",
     "0", "1", "2", "3", "4", "5", "6", "7", "8", "9"}

\* text refers to the name: it has the name with no character of a name
\* before or after it
Mentions(text, name) ==
    \E k \in 1..(Len(text) - Len(name) + 1) :
        /\ SubSeq(text, k, k + Len(name) - 1) = name
        /\ k = 1 \/ SubSeq(text, k - 1, k - 1) \notin NameChars
        /\ k + Len(name) > Len(text)
               \/ SubSeq(text, k + Len(name), k + Len(name)) \notin NameChars

\* the rvalue texts of the declared signals of m and the write lines of its
\* memories
EmittedTexts ==
    {M.signals[n].vlog_rvalue :
        n \in {k \in DOMAIN M.signals :
                  M.signals[k].materialize /\ M.signals[k].vlog_rvalue # None}}
    \cup UNION {Range(M.memories[i].regactions) : i \in DOMAIN M.memories}

\* C28: in an emitted module every signal that the rvalue text of a declared
\* signal or a write line of a memory refers to by name is declared too; and
\* taking the element of a memory at a signal materializes that signal.
C28_ReferencedAreDeclared ==
    /\ []((out # NoOut /\ out.status = NoExc) =>
              \A n \in DOMAIN M.signals :
                  (\E text \in EmittedTexts : Mentions(text, n)) => M.signals[n].materialize)
    /\ [][(Called("GetItem") /\ exc' = NoExc)
              => modules'["m"].signals[Last'.args[2]].materialize]_vars

\* q.next = mem[addr + addr] was emitted: __2 is declared and assigned
\* mem[__1], and __1 is not declared
C28_Witness ==
    /\ Len(hist) >= 3
    /\ SubSeq(hist, 1, 3) = <<Call("ChipyBinaryOp", <<"+", "addr", "addr">>),
                             Call("GetItem", <<"mem", "__1">>),
                             Call("Assign", <<"q", "__2">>)>>
    /\ out # NoOut /\ out.status = NoExc
    /\ \E i \in DOMAIN out.assignlist : Mentions(out.assignlist[i], "__1")
    /\ ~M.signals["__1"].materialize
    /\ \A i \in DOMAIN out.wirelist : ~Mentions(out.wirelist[i], "__1")

---------------------------------------------------------------------------
(* Claims checked under SpecBlocks: else after end. *)

\* line i of the lines is an "else begin" or an "else if"
IsElseLine(line) ==
    LET k == LeadingSpaces(line)
    IN Len(line) >= k + 5 /\ SubSeq(line, k + 1, k + 5) = "else "

\* C29: in every snippet the line before an "else begin" or an "else if"
\* line is the "end" line of the branch it follows, at the same indentation:
\* no line of a statement is between them, whatever the calls made.
C29_ElseFollowsEnd ==
    \A k \in DOMAIN M.code_snippets :
        LET lines == M.code_snippets[k].text_lines
        IN \A i \in DOMAIN lines :
               IsElseLine(lines[i]) =>
                   /\ i > 1
                   /\ lines[i - 1] = SubSeq(lines[i], 1, LeadingSpaces(lines[i])) \o "end"

\* inside an If block: an If block, an assignment of r and then Else(), which
\* has put "else begin" after the line of the assignment
C29_Witness ==
    /\ hist = <<Call("If", <<"sel">>), Call("If", <<"sel">>), Call("End", <<"If">>),
                Call("Assign", <<"r", "a">>), Call("Else", <<>>)>>
    /\ exc = NoExc
    /\ M.code_snippets[1].text_lines =
           <<"    if (sel) begin", "      if (sel) begin", "      end",
             "      __next__r = a;", "      else begin">>

---------------------------------------------------------------------------
(* SpecTwo: one module after the other.  The host program has opened module  *)
(* A and added the input a; it then opens and closes If and Else blocks,     *)
(* adds inputs, leaves the with-block of A and opens module B.               *)

\* builder calls a host program of SpecTwo makes after its prelude
MaxTwoCalls == 4

\* with AddModule("A"): AddInput("a")
PreludeTwo == AddInput(ModuleEnter(ChipyModule(S0, "A"), "A"), "a", 1)

InitTwo == Started(PreludeTwo, <<Frame("module", 1)>>, MaxTwoCalls)

NextTwo ==
    \/ DoAddModule("B")
    \/ DoAddInput("a", 1)
    \/ DoIf("a")
    \/ DoElse
    \/ DoEnd
    \/ DoModuleExit

SpecTwo == InitTwo /\ [][NextTwo]_vars

---------------------------------------------------------------------------
(* Claims checked under SpecTwo. *)

\* C30: the pending-else context does not outlive the module it was made
\* in: an Else() called where the context of module B is current, after an
\* If block was closed in module A, raises ChipyError, and a builder call
\* made where the context of B is current leaves the code snippets of A as
\* they are.
C30_ElseStaysInModule ==
    [][(/\ Len(hist') = Len(hist) + 1
        /\ ChipyCurrentContext # NoCtx
        /\ contexts[ChipyCurrentContext].module = "B")
       => /\ modules'["A"].code_snippets = modules["A"].code_snippets
          /\ (/\ Last'.op = "Else"
              /\ ChipyElseContext # NoCtx
              /\ contexts[ChipyElseContext].module = "A")
             => exc' = "ChipyError: Cannot find matching If/IfElse for Else"]_vars

\* with A: with If(a): pass; then with B: with Else(): which has put
\* "else begin" into the snippet of A and made the context of the If of A
\* the current one
C30_Witness ==
    /\ hist = <<Call("If", <<"a">>), Call("End", <<"If">>), Call("ModuleExit", <<>>),
                Call("AddModule", <<"B">>), Call("Else", <<>>)>>
    /\ exc = NoExc
    /\ modules["A"].code_snippets[1].text_lines
           = <<"    if (a) begin", "    end", "    else begin">>
    /\ modules["B"].code_snippets = <<>>
    /\ contexts[ChipyCurrentContext].module = "A"

---------------------------------------------------------------------------
(* SpecFail: errors inside blocks.  The host program has opened module m and *)
(* added the inputs clk, sel, a and b and the register r on posedge clk; it  *)
(* then opens and closes blocks and assigns b to r or to the input a, which  *)
(* raises; it catches the exception outside the with-block of the module and *)
(* calls ResetDesign.                                                        *)

\* builder calls a host program of SpecFail makes after its prelude
MaxFailCalls == 4

InitFail == Started(PreludeBlocks, <<Frame("module", 1)>>, MaxFailCalls)

NextFail ==
    \/ DoIf("sel")
    \/ DoElseIf("sel")
    \/ DoElse
    \/ DoSwitch("a", FALSE, FALSE)
    \/ Innermost = "Switch" /\ DoCase(1)
    \/ Innermost = "Switch" /\ DoDefault
    \/ DoEnd
    \/ \E lhs \in {"r", "a"} : DoAssign(lhs, "b")
    \/ DoModuleExit
    \/ DoCatch
    \/ DoResetDesign

SpecFail == InitFail /\ [][NextFail]_vars

---------------------------------------------------------------------------
(* Claims checked under SpecFail. *)

\* the kinds of blocks
BlockKinds == {"If", "ElseIf", "Else", "Switch", "Case", "Default"}

\* the blocks open after the calls h, none of which raised
OpenBlocks(h) ==
    Len(SelectSeq(h, LAMBDA call : call.op \in BlockKinds))
        - Len(SelectSeq(h, LAMBDA call : call.op = "End"))

\* the host program has just caught its first exception, raised by a call
\* made inside the body of an open block
CaughtFromBlock ==
    /\ Last.op = "Catch"
    /\ Len(SelectSeq(hist, LAMBDA call : call.op = "Catch")) = 1
    /\ OpenBlocks(SubSeq(hist, 1, Len(hist) - 2)) > 0

\* C31: a builder call that raises inside the body of an open If, ElseIf,
\* Else, Switch, Case or Default block leaves, once the exception is out of
\* the with-block of the module, no context open: the current context is
\* None, as it was before the module was entered, and a ResetDesign called
\* then raises nothing.
C31_ClosedOnFailure ==
    [][/\ (/\ Len(hist') = Len(hist) + 1
           /\ exc = NoExc /\ exc' # NoExc
           /\ Innermost \in BlockKinds)
          => /\ withs' = <<>>
             /\ ChipyCurrentContext' = NoCtx
       /\ (Called("ResetDesign") /\ CaughtFromBlock)
          => Last'.args[1] = NoExc]_vars

\* with If(sel): a.next = b has raised; the exception was caught outside the
\* with-block of m, the context of m is the current one, and ResetDesign has
\* raised
C31_Witness ==
    /\ hist = <<Call("If", <<"sel">>), Call("Assign", <<"a", "b">>),
                Call("Catch", <<"ValueError: Trying to assign to signal with unset lvalue">>),
                Call("ResetDesign",
                     <<"ValueError: Cannot reset design inside open context (If/Else/Switch etc. block).">>)>>
    /\ ChipyCurrentContext = 1
    /\ contexts[1].module = "m"
    /\ DOMAIN modules = {"m"}

=============================================================================
